---- MODULE Spec2Model ----
(***************************************************************************)
(* A model of micrio's dependency resolver (src/src/src_registry.rs):      *)
(* SrcRegistry::get_required_dependencies and the functions it calls, run  *)
(* over small version stores.                                              *)
(*                                                                         *)
(* Strings that the code takes apart are sequences of tokens: the raw      *)
(* feature entry "dep:D?/extra" is <<"dep:", "D", "?", "/", "extra">>.     *)
(* A version string is <<major, minor>>; any other sequence is a string    *)
(* semver cannot parse.                                                    *)
(***************************************************************************)
EXTENDS Integers, Sequences, FiniteSets, TLC

TARGET_TRIPLE == "x86_64-pc-windows-msvc"

DEFAULT_FEATURE == "default"

(* Features one activation run may examine before the run is taken to loop *)
(* for ever.                                                               *)
MaxExam == 12

\* ------------------------------------------------------------------------
\* Small helpers on sequences
\* ------------------------------------------------------------------------

Contains(s, x) == \E i \in 1..Len(s) : s[i] = x

Range(s) == {s[i] : i \in 1..Len(s)}

\* Vec::position
Position(s, x) == IF Contains(s, x) THEN CHOOSE i \in 1..Len(s) : s[i] = x /\ \A j \in 1..(i - 1) : s[j] # x ELSE 0

\* Vec::swap_remove: the last element takes the place of the removed one
SwapRemove(s, i) == IF i = Len(s) THEN SubSeq(s, 1, Len(s) - 1) ELSE [k \in 1..(Len(s) - 1) |-> IF k = i THEN s[Len(s)] ELSE s[k]]

\* the sequences that list every element of a finite set once
Perms(S) == {p \in [1..Cardinality(S) -> S] : \A x \in S : \E i \in 1..Cardinality(S) : p[i] = x}

\* one fixed listing of a finite set
RECURSIVE SetToSeq(_)
SetToSeq(S) == IF S = {} THEN <<>> ELSE LET x == CHOOSE y \in S : TRUE IN <<x>> \o SetToSeq(S \ {x})

\* ------------------------------------------------------------------------
\* semver (the crate the code calls), on version strings <<major, minor>>
\* ------------------------------------------------------------------------

SemverVersionParses(v) == Len(v) = 2

SemverReqParses(r) == r.op \in {"caret", "exact", "star"}

SemverMatches(r, v) ==
    CASE r.op = "caret" -> v[1] = r.maj /\ v[2] >= r.min
      [] r.op = "exact" -> v[1] = r.maj /\ v[2] = r.min
      [] r.op = "star" -> TRUE
      [] OTHER -> FALSE

\* ------------------------------------------------------------------------
\* Target guards
\* ------------------------------------------------------------------------

\* what the target descriptor of TARGET_TRIPLE answers to a target predicate
TargetMatches(p) ==
    CASE p.key = "target_os" -> p.val = "windows"
      [] p.key = "target_family" -> p.val = "windows"
      [] p.key = "target_arch" -> p.val = "x86_64"
      [] OTHER -> FALSE

RECURSIVE CfgParses(_)
CfgParses(e) ==
    CASE e.op = "bad" -> FALSE
      [] e.op \in {"not", "all", "any"} -> \A i \in 1..Len(e.args) : CfgParses(e.args[i])
      [] OTHER -> TRUE

\* a callback that takes a flag for set
EvalPredicateFlagsSet(e) ==
    CASE e.op = "target" -> IF TargetMatches(e) THEN "T" ELSE "F"
      [] e.op = "target_feature" -> "T"
      [] e.op = "flag" -> "T"
      [] e.op = "keyvalue" -> IF e.key = "target" THEN (IF e.val = TARGET_TRIPLE THEN "T" ELSE "F") ELSE "F"
      [] OTHER -> "N"

\* the predicate callback of dependency_enabled_for_target: "T", "F" or "N" (None)
EvalPredicate(e) ==
    CASE e.op = "target" -> IF TargetMatches(e) THEN "T" ELSE "F"
      [] e.op = "target_feature" -> "T"
      [] e.op = "flag" -> "F"
      [] e.op = "keyvalue" -> IF e.key = "target" THEN (IF e.val = TARGET_TRIPLE THEN "T" ELSE "F") ELSE "F"
      [] OTHER -> "N"

Not3(a) == CASE a = "T" -> "F" [] a = "F" -> "T" [] OTHER -> "N"

And3(a, b) == IF a = "F" \/ b = "F" THEN "F" ELSE IF a = "T" /\ b = "T" THEN "T" ELSE "N"

Or3(a, b) == IF a = "T" \/ b = "T" THEN "T" ELSE IF a = "F" /\ b = "F" THEN "F" ELSE "N"

RECURSIVE CfgEval(_)
RECURSIVE CfgEvalAll(_, _)
RECURSIVE CfgEvalAny(_, _)
CfgEval(e) ==
    CASE e.op = "not" -> Not3(CfgEval(e.args[1]))
      [] e.op = "all" -> CfgEvalAll(e.args, 1)
      [] e.op = "any" -> CfgEvalAny(e.args, 1)
      [] OTHER -> EvalPredicate(e)
CfgEvalAll(args, i) == IF i > Len(args) THEN "T" ELSE And3(CfgEval(args[i]), CfgEvalAll(args, i + 1))
CfgEvalAny(args, i) == IF i > Len(args) THEN "F" ELSE Or3(CfgEval(args[i]), CfgEvalAny(args, i + 1))

\* The result is [err, val]: err is TRUE for Error::ConfigExpression.
dependency_enabled_for_target(dependency) ==
    CASE dependency.target.kind = "none" -> [err |-> FALSE, val |-> TRUE]
      [] dependency.target.kind = "cfg" ->
            IF ~CfgParses(dependency.target.expr)
            THEN [err |-> TRUE, val |-> FALSE]
            ELSE [err |-> FALSE, val |-> CfgEval(dependency.target.expr) # "F"]
      [] OTHER -> [err |-> FALSE, val |-> dependency.target.triple = TARGET_TRIPLE]

\* ------------------------------------------------------------------------
\* Feature tables
\* ------------------------------------------------------------------------

IsNormalOrBuild(d) == d.kind = "normal" \/ d.kind = "build"

is_feature_of(name, crate_version) == \E f \in DOMAIN crate_version.features : name = <<f>>

is_optional_dependency_of(name, crate_version) ==
    \E i \in 1..Len(crate_version.dependencies) :
        crate_version.dependencies[i].optional /\ name = <<crate_version.dependencies[i].name>>

is_dependency_of(name, crate_version) ==
    \E i \in 1..Len(crate_version.dependencies) : name = <<crate_version.dependencies[i].name>>

\* the text of a token sequence that names nothing the release declares
TokenString(t) == IF Len(t) = 1 THEN t[1] ELSE IF Len(t) = 0 THEN "" ELSE "<other>"

FeatureEntry(name) == [tag |-> "Feature", dep_name |-> "", feature |-> name]

DependencyEntry(n) == [tag |-> "Dependency", dep_name |-> n, feature |-> ""]

WeakDependencyFeature(n, f) == [tag |-> "WeakDependencyFeature", dep_name |-> n, feature |-> f]

StrongDependencyFeature(n, f) == [tag |-> "StrongDependencyFeature", dep_name |-> n, feature |-> f]

ParseError(implicit_features) == [ok |-> FALSE, entry |-> FeatureEntry(""), implicit |-> implicit_features]

ParseOk(e, implicit_features) == [ok |-> TRUE, entry |-> e, implicit |-> implicit_features]

StripPrefix(t) == SubSeq(t, 2, Len(t))

StripSuffix(t) == SubSeq(t, 1, Len(t) - 1)

HasDepPrefix(t) == Len(t) >= 1 /\ t[1] = "dep:"

HasWeakSuffix(t) == Len(t) >= 1 /\ t[Len(t)] = "?"

\* a parse that looks for an optional dependency of the name before a feature
ParseBareDependencyFirst(crate_version, entry, implicit_features) ==
    IF HasDepPrefix(entry)
    THEN LET dep_name == StripPrefix(entry) IN
         IF is_optional_dependency_of(dep_name, crate_version)
         THEN ParseOk(DependencyEntry(dep_name[1]), implicit_features \ {dep_name[1]})
         ELSE ParseError(implicit_features)
    ELSE IF is_optional_dependency_of(entry, crate_version)
         THEN ParseOk(DependencyEntry(entry[1]), implicit_features)
         ELSE IF is_feature_of(entry, crate_version)
              THEN ParseOk(FeatureEntry(entry[1]), implicit_features)
              ELSE ParseError(implicit_features)

parse_feature_or_dependency_entry(crate_version, entry, implicit_features) ==
    IF HasDepPrefix(entry)
    THEN LET dep_name == StripPrefix(entry) IN
         IF is_optional_dependency_of(dep_name, crate_version)
         THEN ParseOk(DependencyEntry(dep_name[1]), implicit_features \ {dep_name[1]})
         ELSE ParseError(implicit_features)
    ELSE IF is_feature_of(entry, crate_version)
         THEN ParseOk(FeatureEntry(entry[1]), implicit_features)
         ELSE IF is_optional_dependency_of(entry, crate_version)
              THEN ParseOk(DependencyEntry(entry[1]), implicit_features)
              ELSE ParseError(implicit_features)

\* a parse whose weak form takes any dependency of the release
ParseWeakOfAnyDependency(crate_version, part0, part1, implicit_features) ==
    IF HasDepPrefix(part0)
    THEN LET stripped == StripPrefix(part0)
             is_weak_dep == HasWeakSuffix(stripped)
             dep_name == IF is_weak_dep THEN StripSuffix(stripped) ELSE stripped
         IN IF is_optional_dependency_of(dep_name, crate_version)
            THEN IF is_weak_dep
                 THEN ParseOk(WeakDependencyFeature(dep_name[1], TokenString(part1)), implicit_features \ {dep_name[1]})
                 ELSE ParseOk(StrongDependencyFeature(dep_name[1], TokenString(part1)), implicit_features \ {dep_name[1]})
            ELSE ParseError(implicit_features)
    ELSE IF HasWeakSuffix(part0)
         THEN LET dep_name == StripSuffix(part0) IN
              IF is_dependency_of(dep_name, crate_version)
              THEN ParseOk(WeakDependencyFeature(dep_name[1], TokenString(part1)), implicit_features)
              ELSE ParseError(implicit_features)
         ELSE IF is_dependency_of(part0, crate_version)
              THEN ParseOk(StrongDependencyFeature(part0[1], TokenString(part1)), implicit_features)
              ELSE ParseError(implicit_features)

parse_dependency_feature_entry(crate_version, part0, part1, implicit_features) ==
    IF HasDepPrefix(part0)
    THEN LET stripped == StripPrefix(part0)
             is_weak_dep == HasWeakSuffix(stripped)
             dep_name == IF is_weak_dep THEN StripSuffix(stripped) ELSE stripped
         IN IF is_optional_dependency_of(dep_name, crate_version)
            THEN IF is_weak_dep
                 THEN ParseOk(WeakDependencyFeature(dep_name[1], TokenString(part1)), implicit_features \ {dep_name[1]})
                 ELSE ParseOk(StrongDependencyFeature(dep_name[1], TokenString(part1)), implicit_features \ {dep_name[1]})
            ELSE ParseError(implicit_features)
    ELSE IF HasWeakSuffix(part0)
         THEN LET dep_name == StripSuffix(part0) IN
              IF is_optional_dependency_of(dep_name, crate_version)
              THEN ParseOk(WeakDependencyFeature(dep_name[1], TokenString(part1)), implicit_features)
              ELSE ParseError(implicit_features)
         ELSE IF is_dependency_of(part0, crate_version)
              THEN ParseOk(StrongDependencyFeature(part0[1], TokenString(part1)), implicit_features)
              ELSE ParseError(implicit_features)

\* entry.split("/")
SlashPositions(entry) == {i \in 1..Len(entry) : entry[i] = "/"}

parse_feature_table_entry(crate_version, entry, implicit_features) ==
    LET slashes == SlashPositions(entry) IN
    CASE Cardinality(slashes) = 0 -> parse_feature_or_dependency_entry(crate_version, entry, implicit_features)
      [] Cardinality(slashes) = 1 ->
            LET p == CHOOSE i \in slashes : TRUE IN
            parse_dependency_feature_entry(crate_version, SubSeq(entry, 1, p - 1), SubSeq(entry, p + 1, Len(entry)), implicit_features)
      [] OTHER -> ParseError(implicit_features)

\* the entries of one feature, in order; acc is [ok, entries, implicit]
RECURSIVE ParseEntries(_, _, _, _)
ParseEntries(crate_version, entries, i, acc) ==
    IF ~acc.ok \/ i > Len(entries) THEN acc
    ELSE LET r == parse_feature_table_entry(crate_version, entries[i], acc.implicit) IN
         ParseEntries(crate_version, entries, i + 1,
                      [ok |-> r.ok, entries |-> Append(acc.entries, r.entry), implicit |-> r.implicit])

\* the features of the release, one after the other; acc is [ok, table, implicit]
RECURSIVE ParseFeatures(_, _, _)
ParseFeatures(crate_version, todo, acc) ==
    IF ~acc.ok \/ todo = {} THEN acc
    ELSE LET feature == CHOOSE f \in todo : TRUE
             r == ParseEntries(crate_version, crate_version.features[feature], 1,
                               [ok |-> TRUE, entries |-> <<>>, implicit |-> acc.implicit])
         IN ParseFeatures(crate_version, todo \ {feature},
                          [ok |-> r.ok,
                           table |-> [f \in DOMAIN acc.table \cup {feature} |-> IF f = feature THEN r.entries ELSE acc.table[f]],
                           implicit |-> r.implicit])

\* The result is [ok, table]: ok is FALSE for Error::FeatureTable.
parse_then_grow_features_table(crate_version) ==
    LET implicit_features == {crate_version.dependencies[i].name : i \in
                                {j \in 1..Len(crate_version.dependencies) :
                                    crate_version.dependencies[j].optional /\ IsNormalOrBuild(crate_version.dependencies[j])}}
        parsed == ParseFeatures(crate_version, DOMAIN crate_version.features,
                                [ok |-> TRUE, table |-> <<>>, implicit |-> implicit_features])
    IN [ok |-> parsed.ok,
        table |-> [f \in DOMAIN parsed.table \cup parsed.implicit |->
                      IF f \in parsed.implicit THEN <<DependencyEntry(f)>> ELSE parsed.table[f]]]

\* ------------------------------------------------------------------------
\* Activation of the dependencies of a release
\* ------------------------------------------------------------------------

PushUnique(s, x) == IF Contains(s, x) THEN s ELSE Append(s, x)

\* a loop that keeps a weak feature only when the dependency is already enabled
RECURSIVE OptionalEntriesWeakAfter(_, _, _, _)
OptionalEntriesWeakAfter(entries, i, dependency, st) ==
    IF i > Len(entries) THEN st
    ELSE LET e == entries[i] IN
         OptionalEntriesWeakAfter(entries, i + 1, dependency,
            CASE e.tag = "Feature" -> [st EXCEPT !.queue = PushUnique(@, e.feature)]
              [] e.tag = "Dependency" /\ e.dep_name = dependency.name -> [st EXCEPT !.dependency_enabled = TRUE]
              [] e.tag = "StrongDependencyFeature" /\ e.dep_name = dependency.name ->
                    [st EXCEPT !.dependency_enabled = TRUE, !.enabled_features = PushUnique(@, e.feature)]
              [] e.tag = "WeakDependencyFeature" /\ e.dep_name = dependency.name /\ st.dependency_enabled ->
                    [st EXCEPT !.weakly_enabled_features = PushUnique(@, e.feature)]
              [] OTHER -> st)

\* The entries of the feature under examination, for an optional dependency.
\* st is [queue, enabled_features, weakly_enabled_features, dependency_enabled].
RECURSIVE OptionalEntries(_, _, _, _)
OptionalEntries(entries, i, dependency, st) ==
    IF i > Len(entries) THEN st
    ELSE LET e == entries[i] IN
         OptionalEntries(entries, i + 1, dependency,
            CASE e.tag = "Feature" -> [st EXCEPT !.queue = PushUnique(@, e.feature)]
              [] e.tag = "Dependency" /\ e.dep_name = dependency.name -> [st EXCEPT !.dependency_enabled = TRUE]
              [] e.tag = "StrongDependencyFeature" /\ e.dep_name = dependency.name ->
                    [st EXCEPT !.dependency_enabled = TRUE, !.enabled_features = PushUnique(@, e.feature)]
              [] e.tag = "WeakDependencyFeature" /\ e.dep_name = dependency.name ->
                    [st EXCEPT !.weakly_enabled_features = PushUnique(@, e.feature)]
              [] OTHER -> st)

\* while let Some(feature_under_exam) = features_to_examine.pop_front()
RECURSIVE OptionalExamine(_, _, _, _)
OptionalExamine(features_table, dependency, st, fuel) ==
    IF st.queue = <<>> THEN [hang |-> FALSE, st |-> st]
    ELSE IF fuel = 0 THEN [hang |-> TRUE, st |-> st]
    ELSE LET feature_under_exam == Head(st.queue)
             popped == [st EXCEPT !.queue = Tail(@)]
         IN IF feature_under_exam \notin DOMAIN features_table
            THEN OptionalExamine(features_table, dependency, popped, fuel - 1)
            ELSE OptionalExamine(features_table, dependency,
                                 OptionalEntries(features_table[feature_under_exam], 1, dependency, popped), fuel - 1)

RECURSIVE PushAllUnique(_, _, _)
PushAllUnique(s, more, i) == IF i > Len(more) THEN s ELSE PushAllUnique(PushUnique(s, more[i]), more, i + 1)

\* a result that takes a weak entry for an activator
OptionalResultWeakActivates(r) ==
    [hang |-> r.hang,
     enabled |-> r.st.dependency_enabled \/ r.st.weakly_enabled_features # <<>>,
     features |-> IF r.st.dependency_enabled \/ r.st.weakly_enabled_features # <<>>
                  THEN PushAllUnique(r.st.enabled_features, r.st.weakly_enabled_features, 1)
                  ELSE <<>>]

\* The result is [hang, enabled, features]: enabled is FALSE for Ok(None);
\* hang is TRUE when the worklist never empties.
OptionalResult(r) ==
    [hang |-> r.hang,
     enabled |-> r.st.dependency_enabled,
     features |-> IF r.st.dependency_enabled
                  THEN PushAllUnique(r.st.enabled_features, r.st.weakly_enabled_features, 1)
                  ELSE <<>>]

\* an examination that starts with the dependency disabled, whoever asks
OptionalFeaturesUnforced(features_table, enabled_crate_features, dependency, force_enable) ==
    OptionalResult(OptionalExamine(features_table, dependency,
                                   [queue |-> enabled_crate_features,
                                    enabled_features |-> dependency.features,
                                    weakly_enabled_features |-> <<>>,
                                    dependency_enabled |-> FALSE], MaxExam))

get_enabled_features_for_optional_dependency(features_table, enabled_crate_features, dependency, force_enable) ==
    OptionalResult(OptionalExamine(features_table, dependency,
                                   [queue |-> enabled_crate_features,
                                    enabled_features |-> dependency.features,
                                    weakly_enabled_features |-> <<>>,
                                    dependency_enabled |-> force_enable], MaxExam))

\* entries of a required dependency where its DepWeak entries add their
\* feature as its DepStrong entries do
RECURSIVE RequiredEntriesWeakToo(_, _, _, _)
RequiredEntriesWeakToo(entries, i, dependency, st) ==
    IF i > Len(entries) THEN st
    ELSE LET e == entries[i] IN
         RequiredEntriesWeakToo(entries, i + 1, dependency,
            CASE e.tag = "Feature" -> [st EXCEPT !.queue = PushUnique(@, e.feature)]
              [] e.tag \in {"StrongDependencyFeature", "WeakDependencyFeature"} /\ e.dep_name = dependency.name ->
                    [st EXCEPT !.enabled_features = PushUnique(@, e.feature)]
              [] OTHER -> st)

\* The entries of the feature under examination, for a required dependency.
\* st is [queue, enabled_features].
RECURSIVE RequiredEntries(_, _, _, _)
RequiredEntries(entries, i, dependency, st) ==
    IF i > Len(entries) THEN st
    ELSE LET e == entries[i] IN
         RequiredEntries(entries, i + 1, dependency,
            CASE e.tag = "Feature" -> [st EXCEPT !.queue = PushUnique(@, e.feature)]
              [] e.tag = "StrongDependencyFeature" /\ e.dep_name = dependency.name ->
                    [st EXCEPT !.enabled_features = PushUnique(@, e.feature)]
              [] OTHER -> st)

RECURSIVE RequiredExamine(_, _, _, _)
RequiredExamine(features_table, dependency, st, fuel) ==
    IF st.queue = <<>> THEN [hang |-> FALSE, st |-> st]
    ELSE IF fuel = 0 THEN [hang |-> TRUE, st |-> st]
    ELSE LET feature_under_exam == Head(st.queue)
             popped == [st EXCEPT !.queue = Tail(@)]
         IN IF feature_under_exam \notin DOMAIN features_table
            THEN RequiredExamine(features_table, dependency, popped, fuel - 1)
            ELSE RequiredExamine(features_table, dependency,
                                 RequiredEntries(features_table[feature_under_exam], 1, dependency, popped), fuel - 1)

\* The result is [hang, enabled, features]; a required dependency is always enabled.
RequiredResult(r) == [hang |-> r.hang, enabled |-> TRUE, features |-> r.st.enabled_features]

get_enabled_features_for_dependency(features_table, enabled_crate_features, dependency) ==
    RequiredResult(RequiredExamine(features_table, dependency,
                                   [queue |-> enabled_crate_features, enabled_features |-> dependency.features], MaxExam))

\* ------------------------------------------------------------------------
\* Release selection and the closure
\* ------------------------------------------------------------------------

\* the selection without its filter on withdrawn releases
RECURSIVE SelectFromAnyRelease(_, _, _)
SelectFromAnyRelease(dep_crate, version_req, i) ==
    IF i = 0 THEN [err |-> FALSE, found |-> FALSE, idx |-> 0]
    ELSE IF ~SemverVersionParses(dep_crate[i].vers) THEN [err |-> TRUE, error |-> "SemVerVersion", found |-> FALSE, idx |-> i]
    ELSE IF SemverMatches(version_req, dep_crate[i].vers) THEN [err |-> FALSE, found |-> TRUE, idx |-> i]
    ELSE SelectFromAnyRelease(dep_crate, version_req, i - 1)

\* a selection that walks the releases from the front of the list
SelectFromFront(dep_crate, version_req, i) ==
    LET matching == {j \in 1..i : /\ ~dep_crate[j].yanked
                                  /\ SemverVersionParses(dep_crate[j].vers)
                                  /\ SemverMatches(version_req, dep_crate[j].vers)}
    IN IF matching = {}
       THEN [err |-> FALSE, found |-> FALSE, idx |-> 0]
       ELSE [err |-> FALSE, found |-> TRUE, idx |-> CHOOSE j \in matching : \A k \in matching : j <= k]

\* for dep_crate_version in dep_crate.versions().iter().rev().filter(|c| !c.is_yanked())
\* The result is [err, found, idx].
RECURSIVE SelectFrom(_, _, _)
SelectFrom(dep_crate, version_req, i) ==
    IF i = 0 THEN [err |-> FALSE, found |-> FALSE, idx |-> 0]
    ELSE IF dep_crate[i].yanked THEN SelectFrom(dep_crate, version_req, i - 1)
    ELSE IF ~SemverVersionParses(dep_crate[i].vers) THEN [err |-> TRUE, error |-> "SemVerVersion", found |-> FALSE, idx |-> i]
    ELSE IF SemverMatches(version_req, dep_crate[i].vers) THEN [err |-> FALSE, found |-> TRUE, idx |-> i]
    ELSE SelectFrom(dep_crate, version_req, i - 1)

get_dependency_crate_version(dependency, dep_crate) ==
    IF ~SemverReqParses(dependency.req)
    THEN [err |-> TRUE, error |-> "SemVerRequirement", found |-> FALSE, idx |-> 0]
    ELSE SelectFrom(dep_crate, dependency.req, Len(dep_crate))

\* Version's PartialEq and Hash look at the name and the version only.
VersionEq(a, b) == a.name = b.name /\ a.vers = b.vers

\* an insertion that puts the new value in the place of an equal one
HashSetReplace(set, v) == {e \in set : ~VersionEq(e, v)} \cup {v}

\* HashSet::insert keeps the value the set already holds for an equal key.
HashSetInsert(set, v) == IF \E e \in set : VersionEq(e, v) THEN set ELSE set \cup {v}

NoVersion == [name |-> "", vers |-> <<>>, download |-> FALSE]

\* The result is [err, some, version, set]: err is TRUE for Err(..) and error
\* is then the variant of Error, some is TRUE for Ok(Some(version)); set is
\* required_dependencies afterwards.
\* an insertion that hands back no release when the set already holds it, so
\* that the caller does not walk it again
InsertVersionUnlessKnown(dep_crate_version, required_dependencies) ==
    IF \E e \in required_dependencies : VersionEq(e, dep_crate_version)
    THEN [err |-> FALSE, some |-> FALSE, version |-> NoVersion, set |-> required_dependencies]
    ELSE [err |-> FALSE, some |-> TRUE, version |-> dep_crate_version,
          set |-> required_dependencies \cup {dep_crate_version}]

\* Version::new(dep_crate_version.clone()).download(download), inserted and returned
InsertVersion(dep_crate_version, required_dependencies) ==
    [err |-> FALSE, some |-> TRUE, version |-> dep_crate_version,
     set |-> HashSetInsert(required_dependencies, dep_crate_version)]

\* a selection without result that is taken for an error
AddSelectedOrFail(dep_crate, sel, download, required_dependencies) ==
    IF sel.err \/ ~sel.found
    THEN [err |-> TRUE, error |-> "CrateNotFound", some |-> FALSE, version |-> NoVersion, set |-> required_dependencies]
    ELSE InsertVersion([name |-> dep_crate[sel.idx].name, vers |-> dep_crate[sel.idx].vers, download |-> download],
                       required_dependencies)

AddSelected(dep_crate, sel, download, required_dependencies) ==
    IF sel.err
    THEN [err |-> TRUE, error |-> sel.error, some |-> FALSE, version |-> NoVersion, set |-> required_dependencies]
    ELSE IF sel.found
         THEN InsertVersion([name |-> dep_crate[sel.idx].name, vers |-> dep_crate[sel.idx].vers, download |-> download],
                            required_dependencies)
         ELSE [err |-> FALSE, some |-> FALSE, version |-> NoVersion, set |-> required_dependencies]

\* a lookup that takes a package the store does not hold for one without releases
AddDependencyIfKnown(index, dependency, download, required_dependencies) ==
    IF dependency.crate_name \notin DOMAIN index
    THEN [err |-> FALSE, some |-> FALSE, version |-> NoVersion, set |-> required_dependencies]
    ELSE AddSelected(index[dependency.crate_name],
                     get_dependency_crate_version(dependency, index[dependency.crate_name]),
                     download, required_dependencies)

add_dependency(index, dependency, download, required_dependencies) ==
    IF dependency.crate_name \notin DOMAIN index
    THEN [err |-> TRUE, error |-> "CrateNotFound", some |-> FALSE, version |-> NoVersion, set |-> required_dependencies]
    ELSE AddSelected(index[dependency.crate_name],
                     get_dependency_crate_version(dependency, index[dependency.crate_name]),
                     download, required_dependencies)

EnabledDependency(crate_version, enabled_features, has_default_features) ==
    [crate_version |-> crate_version, enabled_features |-> enabled_features, has_default_features |-> has_default_features]

\* ------------------------------------------------------------------------
\* The dependencies of one release
\* ------------------------------------------------------------------------

\* the release record of a Version in the store
Release(index, crate_version) ==
    LET c == index[crate_version.name] IN c[CHOOSE i \in 1..Len(c) : c[i].vers = crate_version.vers]

\* let download = self.dependency_enabled_for_target(crate_version, dependency)?
RootDownload(dependency) == dependency_enabled_for_target(dependency)

\* a download flag that looks at the guard alone, whatever the parent's flag
ChildDownloadGuardOnly(crate_version, dependency) == dependency_enabled_for_target(dependency)

\* let download = crate_version.download && self.dependency_enabled_for_target(..)?
ChildDownload(crate_version, dependency) ==
    IF crate_version.download THEN dependency_enabled_for_target(dependency) ELSE [err |-> FALSE, val |-> FALSE]

\* a loop that leaves the dev dependencies in
WalkedAnyKind(dependency) == TRUE

\* .filter(|d| d.kind() == DependencyKind::Normal || d.kind() == DependencyKind::Build)
Walked(dependency) == IsNormalOrBuild(dependency)

\* One turn of the loop over the dependencies of crate_version, for its
\* dependency number i.  cx is the visit: [crate_version, features_table,
\* enabled_crate_features, is_root].  acc is [status, set, eds, log]: set is
\* required_dependencies, eds the enabled_dependencies vector, log the record
\* of the calls of add_dependency that returned a release.

\* if let Some(dep_crate_version) = self.add_dependency(..)? { enabled_dependencies.push(..) }
PushEnabled(cx, dependency, i, acc, features, r) ==
    CASE r.err -> [acc EXCEPT !.status = r.error]
      [] r.some -> [status |-> "ok",
                    set |-> r.set,
                    eds |-> Append(acc.eds, EnabledDependency(r.version, features, dependency.default_features)),
                    log |-> acc.log \cup {[parent |-> cx.crate_version, is_root |-> cx.is_root,
                                           enabled |-> Range(cx.enabled_crate_features), dep |-> i,
                                           child |-> r.version, features |-> Range(features)]}]
      [] OTHER -> acc

\* a loop that resolves a dependency only when its guard is true
EnableDependencyWhenGuardTrue(index, cx, dependency, i, acc, dl, act) ==
    CASE dl.err -> [acc EXCEPT !.status = "ConfigExpression"]
      [] act.hang -> [acc EXCEPT !.status = "Hang"]
      [] ~act.enabled \/ ~dl.val -> acc
      [] OTHER -> PushEnabled(cx, dependency, i, acc, act.features, add_dependency(index, dependency, dl.val, acc.set))

EnableDependency(index, cx, dependency, i, acc, dl, act) ==
    CASE dl.err -> [acc EXCEPT !.status = "ConfigExpression"]
      [] act.hang -> [acc EXCEPT !.status = "Hang"]
      [] ~act.enabled -> acc
      [] OTHER -> PushEnabled(cx, dependency, i, acc, act.features, add_dependency(index, dependency, dl.val, acc.set))

\* a turn of the loop that takes a dependency of any kind
VisitDependencyOfAnyKind(index, cx, dependency, i, acc) ==
    EnableDependency(index, cx, dependency, i, acc,
        IF cx.is_root THEN RootDownload(dependency) ELSE ChildDownload(cx.crate_version, dependency),
        IF dependency.optional
        THEN get_enabled_features_for_optional_dependency(cx.features_table, cx.enabled_crate_features, dependency, cx.is_root)
        ELSE get_enabled_features_for_dependency(cx.features_table, cx.enabled_crate_features, dependency))

VisitDependency(index, cx, dependency, i, acc) ==
    IF ~Walked(dependency) THEN acc
    ELSE EnableDependency(index, cx, dependency, i, acc,
            IF cx.is_root THEN RootDownload(dependency) ELSE ChildDownload(cx.crate_version, dependency),
            IF dependency.optional
            THEN get_enabled_features_for_optional_dependency(cx.features_table, cx.enabled_crate_features, dependency, cx.is_root)
            ELSE get_enabled_features_for_dependency(cx.features_table, cx.enabled_crate_features, dependency))

\* a loop that goes on with the next dependency after an error
RECURSIVE VisitDependenciesToEnd(_, _, _, _)
VisitDependenciesToEnd(index, cx, i, acc) ==
    IF acc.status = "Hang" \/ i > Len(Release(index, cx.crate_version).dependencies) THEN acc
    ELSE VisitDependenciesToEnd(index, cx, i + 1,
                                VisitDependency(index, cx, Release(index, cx.crate_version).dependencies[i], i, acc))

RECURSIVE VisitDependencies(_, _, _, _)
VisitDependencies(index, cx, i, acc) ==
    IF acc.status # "ok" \/ i > Len(Release(index, cx.crate_version).dependencies) THEN acc
    ELSE VisitDependencies(index, cx, i + 1,
                           VisitDependency(index, cx, Release(index, cx.crate_version).dependencies[i], i, acc))

\* if has_default_features { push "default" when the release declares it and
\* it is missing } else { swap_remove its first occurrence }
NormalizeFeatures(release, enabled_features, has_default_features) ==
    IF has_default_features
    THEN IF DEFAULT_FEATURE \in DOMAIN release.features /\ ~Contains(enabled_features, DEFAULT_FEATURE)
         THEN Append(enabled_features, DEFAULT_FEATURE)
         ELSE enabled_features
    ELSE IF Contains(enabled_features, DEFAULT_FEATURE)
         THEN SwapRemove(enabled_features, Position(enabled_features, DEFAULT_FEATURE))
         ELSE enabled_features

\* ------------------------------------------------------------------------
\* Version stores
\* ------------------------------------------------------------------------

NoTarget == [kind |-> "none", triple |-> "", expr |-> <<>>]

TripleTarget(t) == [kind |-> "triple", triple |-> t, expr |-> <<>>]

CfgTarget(e) == [kind |-> "cfg", triple |-> "", expr |-> e]

TargetOs(os) == [op |-> "target", key |-> "target_os", val |-> os, args |-> <<>>]

Caret(maj, min) == [op |-> "caret", maj |-> maj, min |-> min]

Dependency(name, req, kind, optional, default_features, features, target) ==
    [name |-> name, crate_name |-> name, req |-> req, kind |-> kind, optional |-> optional,
     default_features |-> default_features, features |-> features, target |-> target]

CrateVersion(name, vers, yanked, dependencies, features) ==
    [name |-> name, vers |-> vers, yanked |-> yanked, dependencies |-> dependencies, features |-> features]

NoFeatures == <<>>

\* the feature lists a parent may ask of B
FeatureLists == {<<>>, <<"x">>, <<"y">>, <<"w">>}

\* guards of the dependencies on B: the first two are true on TARGET_TRIPLE
GuardsA == {NoTarget, CfgTarget(TargetOs("linux"))}

GuardsC == {NoTarget, TripleTarget("x86_64-unknown-linux-gnu")}

\* the feature table of the releases of B
TableB(tb) ==
    IF tb = 1
    THEN ("x" :> <<(<<"dep:", "D">>)>>) @@ ("y" :> <<(<<"dep:", "E">>)>>) @@
         ("w" :> <<(<<"D", "?", "/", "extra">>)>>) @@ ("default" :> <<>>)
    ELSE ("x" :> <<(<<"D">>)>>) @@ ("y" :> <<(<<"E", "/", "std">>)>>) @@
         ("w" :> <<(<<"dep:", "D", "?", "/", "extra">>)>>) @@ ("default" :> <<(<<"y">>)>>)

DependenciesB ==
    <<Dependency("D", Caret(1, 0), "normal", TRUE, TRUE, <<>>, NoTarget),
      Dependency("E", Caret(1, 0), "normal", TRUE, FALSE, <<>>, NoTarget)>>

\* the dependencies of D: none, one that closes a cycle through A, or a dev
\* dependency beside a guarded one
DependenciesD(dd) ==
    CASE dd = 1 -> <<>>
      [] dd = 2 -> <<Dependency("A", Caret(1, 0), "normal", FALSE, TRUE, <<>>, NoTarget)>>
      [] OTHER -> <<Dependency("C", Caret(1, 0), "dev", FALSE, TRUE, <<>>, NoTarget),
                    Dependency("E", Caret(1, 0), "build", FALSE, TRUE, <<>>, TripleTarget(TARGET_TRIPLE))>>

StoreParams == [fa : FeatureLists, ta : GuardsA, fc : FeatureLists, tc : GuardsC,
                yank : BOOLEAN, tb : {1, 2}, dd : {1, 2, 3}]

MkIndex(p) ==
    ("A" :> <<CrateVersion("A", <<1, 0>>, FALSE,
                <<Dependency("B", Caret(1, 0), "normal", FALSE, TRUE, p.fa, p.ta)>>, NoFeatures)>>) @@
    ("B" :> <<CrateVersion("B", <<1, 0>>, FALSE, DependenciesB, TableB(p.tb)),
              CrateVersion("B", <<1, 1>>, p.yank, DependenciesB, TableB(p.tb))>>) @@
    ("C" :> <<CrateVersion("C", <<1, 0>>, FALSE,
                <<Dependency("B", Caret(1, 0), "build", FALSE, FALSE, p.fc, p.tc)>>, NoFeatures)>>) @@
    ("D" :> <<CrateVersion("D", <<1, 0>>, FALSE, DependenciesD(p.dd), ("extra" :> <<>>))>>) @@
    ("E" :> <<CrateVersion("E", <<1, 0>>, FALSE, <<>>, ("std" :> <<>>))>>)

\* common::Version::new(version).download(true), as top_level.rs builds a root
TopLevel(name, vers) == [name |-> name, vers |-> vers, download |-> TRUE]

RootSets == {{TopLevel("A", <<1, 0>>)}, {TopLevel("C", <<1, 0>>)},
             {TopLevel("A", <<1, 0>>), TopLevel("C", <<1, 0>>)}}

\* ------------------------------------------------------------------------
\* The walker
\* ------------------------------------------------------------------------

VARIABLES index, crate_versions, todo, required_dependencies, stack, pc, result, run, first, visits, pulled, exit_code

\* exit_code is the exit status of the process, -1 while main is running.

\* the state of DstRegistry::populate (src/src/dst_registry.rs): the closure it
\* is given, the directories and files under the destination path, the git
\* repository of the index, and the position of its loops
VARIABLES crates, dirs, files, repo, dst_pc, unindexed, crates_vec, tasks, results, permits, requested, ret

walker_vars == <<index, crate_versions, todo, required_dependencies, stack, pc, result, run, first, visits, pulled, exit_code>>

dst_vars == <<crates, dirs, files, repo, dst_pc, unindexed, crates_vec, tasks, results, permits, requested, ret>>

vars == <<walker_vars, dst_vars>>

\* no call of populate is running
DstIdle ==
    /\ crates = {}
    /\ dirs = {}
    /\ files = <<>>
    /\ repo = [commits |-> <<>>]
    /\ dst_pc = "idle"
    /\ unindexed = {}
    /\ crates_vec = <<>>
    /\ tasks = <<>>
    /\ results = <<>>
    /\ permits = 0
    /\ requested = {}
    /\ ret = "none"

\* no call of get_required_dependencies is running
WalkerIdle ==
    /\ index = <<>>
    /\ crate_versions = {}
    /\ todo = {}
    /\ required_dependencies = {}
    /\ stack = <<>>
    /\ pc = "idle"
    /\ result = {}
    /\ run = 1
    /\ first = [roots |-> {}, result |-> {}]
    /\ visits = {}
    /\ pulled = {}
    /\ exit_code = -1

Init ==
    /\ \E p \in StoreParams : index = MkIndex(p)
    /\ crate_versions \in RootSets
    /\ todo = crate_versions
    /\ required_dependencies = {}
    /\ stack = <<>>
    /\ pc = "run"
    /\ result = {}
    /\ run = 1
    /\ first = [roots |-> {}, result |-> {}]
    /\ visits = {}
    /\ pulled = {}
    /\ exit_code = -1
    /\ DstIdle

Frame(call, is_root, pending) == [call |-> call, is_root |-> is_root, pending |-> pending]

\* the visit of one release once its feature table ft is parsed
VisitWith(index0, ft, crate_version, enabled_crate_features, is_root, set) ==
    IF ~ft.ok
    THEN [status |-> "FeatureTable", set |-> set, eds |-> <<>>, log |-> {}]
    ELSE VisitDependencies(index0,
                           [crate_version |-> crate_version, features_table |-> ft.table,
                            enabled_crate_features |-> enabled_crate_features, is_root |-> is_root],
                           1, [status |-> "ok", set |-> set, eds |-> <<>>, log |-> {}])

Visit(index0, crate_version, enabled_crate_features, is_root, set) ==
    VisitWith(index0, parse_then_grow_features_table(Release(index0, crate_version)),
              crate_version, enabled_crate_features, is_root, set)

\* One turn of the loop of get_required_dependencies over crate_versions, up
\* to the calls of process_enabled_dependency.  A HashSet and a HashMap are
\* iterated in an order the program does not choose: any root left, and any
\* listing of the keys of its feature table.
AnalyzeRoot ==
    /\ pc = "run"
    /\ stack = <<>>
    /\ \E crate_version \in todo :
         \E enabled_crate_features \in Perms(DOMAIN parse_then_grow_features_table(Release(index, crate_version)).table) :
         \E v \in {Visit(index, crate_version, enabled_crate_features, TRUE, required_dependencies)} :
            /\ todo' = todo \ {crate_version}
            /\ visits' = visits \cup {[crate_version |-> crate_version, enabled |-> Range(enabled_crate_features), is_root |-> TRUE]}
            /\ required_dependencies' = v.set
            /\ pulled' = pulled \cup v.log
            /\ pc' = IF v.status = "ok" THEN pc ELSE v.status
            /\ stack' = IF v.status = "ok"
                        THEN <<Frame(EnabledDependency(crate_version, enabled_crate_features, TRUE), TRUE, v.eds)>>
                        ELSE stack
    /\ UNCHANGED <<index, crate_versions, result, run, first, exit_code>>
    /\ UNCHANGED dst_vars

\* self.process_enabled_dependency(enabled_dependency, ..) for the next
\* enabled dependency of the release on top of the stack, up to its own
\* recursive calls.  The function only writes required_dependencies, so a
\* call with the arguments of a call that is still running recurses for ever:
\* the process dies of stack exhaustion.
ProcessEnabledDependency ==
    /\ pc = "run"
    /\ stack # <<>>
    /\ stack[Len(stack)].pending # <<>>
    /\ \E enabled_dependency \in {Head(stack[Len(stack)].pending)} :
       \E crate_version \in {enabled_dependency.crate_version} :
       \E enabled_crate_features \in {NormalizeFeatures(Release(index, crate_version),
                                        enabled_dependency.enabled_features, enabled_dependency.has_default_features)} :
       \E v \in {Visit(index, crate_version, enabled_crate_features, FALSE, required_dependencies)} :
       \E rest \in {[stack EXCEPT ![Len(stack)].pending = Tail(@)]} :
          IF \E k \in 1..Len(stack) : ~stack[k].is_root /\ stack[k].call = enabled_dependency
          THEN /\ pc' = "StackOverflow"
               /\ UNCHANGED <<stack, visits, required_dependencies, pulled>>
          ELSE /\ visits' = visits \cup {[crate_version |-> crate_version, enabled |-> Range(enabled_crate_features), is_root |-> FALSE]}
               /\ required_dependencies' = v.set
               /\ pulled' = pulled \cup v.log
               /\ pc' = IF v.status = "ok" THEN pc ELSE v.status
               /\ stack' = IF v.status = "ok" THEN Append(rest, Frame(enabled_dependency, FALSE, v.eds)) ELSE stack
    /\ UNCHANGED <<index, crate_versions, todo, result, run, first, exit_code>>
    /\ UNCHANGED dst_vars

\* the end of process_enabled_dependency, or of one turn of the loop over the roots
Return ==
    /\ pc = "run"
    /\ stack # <<>>
    /\ stack[Len(stack)].pending = <<>>
    /\ stack' = SubSeq(stack, 1, Len(stack) - 1)
    /\ UNCHANGED <<index, crate_versions, todo, required_dependencies, pc, result, run, first, visits, pulled, exit_code>>
    /\ UNCHANGED dst_vars

\* Ok(required_dependencies)
Finish ==
    /\ pc = "run"
    /\ stack = <<>>
    /\ todo = {}
    /\ pc' = "Ok"
    /\ result' = required_dependencies
    /\ UNCHANGED <<index, crate_versions, todo, required_dependencies, stack, run, first, visits, pulled, exit_code>>
    /\ UNCHANGED dst_vars

\* a second call of get_required_dependencies on the same store, with the
\* same root set or a larger one
SecondCall ==
    /\ pc = "Ok"
    /\ run = 1
    /\ \E more \in RootSets :
         /\ crate_versions \subseteq more
         /\ crate_versions' = more
         /\ todo' = more
    /\ first' = [roots |-> crate_versions, result |-> result]
    /\ run' = 2
    /\ required_dependencies' = {}
    /\ stack' = <<>>
    /\ pc' = "run"
    /\ result' = {}
    /\ visits' = {}
    /\ pulled' = {}
    /\ UNCHANGED <<index, exit_code>>
    /\ UNCHANGED dst_vars

Next == AnalyzeRoot \/ ProcessEnabledDependency \/ Return \/ Finish \/ SecondCall

Spec == Init /\ [][Next]_vars

\* ------------------------------------------------------------------------
\* What the claims speak of
\* ------------------------------------------------------------------------

InSet(set, v) == \E e \in set : VersionEq(e, v)

\* the download flag the set stores for the release v
FlagOf(set, v) == \E e \in set : VersionEq(e, v) /\ e.download

\* the activation of dependency number i of a release under the enabled set
ActivationOf(release, enabled, i, is_root) ==
    IF release.dependencies[i].optional
    THEN get_enabled_features_for_optional_dependency(parse_then_grow_features_table(release).table,
                                                      SetToSeq(enabled), release.dependencies[i], is_root)
    ELSE get_enabled_features_for_dependency(parse_then_grow_features_table(release).table,
                                             SetToSeq(enabled), release.dependencies[i])

NotFound == [err |-> FALSE, found |-> FALSE, idx |-> 0]

\* the release that release selection picks for a dependency
SelectionOf(dependency) ==
    IF dependency.crate_name \in DOMAIN index
    THEN get_dependency_crate_version(dependency, index[dependency.crate_name])
    ELSE NotFound

SelectedRelease(dependency) == index[dependency.crate_name][SelectionOf(dependency).idx]

\* dependency number i of the visited release is walked, active and has a compatible release
Pulls(v, i) ==
    /\ IsNormalOrBuild(Release(index, v.crate_version).dependencies[i])
    /\ ActivationOf(Release(index, v.crate_version), v.enabled, i, v.is_root).enabled
    /\ SelectionOf(Release(index, v.crate_version).dependencies[i]).found

DependencyIndexes(v) == 1..Len(Release(index, v.crate_version).dependencies)

\* the features reachable from a set of enabled features through Feature entries
RECURSIVE ReachableFeatures(_, _)
ReachableFeatures(table, enabled) ==
    LET more == UNION {{table[f][k].feature : k \in {j \in 1..Len(table[f]) : table[f][j].tag = "Feature"}} :
                          f \in {g \in enabled : g \in DOMAIN table}}
    IN IF more \subseteq enabled THEN enabled ELSE ReachableFeatures(table, enabled \cup more)

\* C1: when the resolver returns Ok, the download flag stored for a release is
\* the OR of the download flags of all the contexts that reached it.
C1_DownloadIsOr ==
    pc = "Ok" => \A e \in result : e.download = (\E l \in pulled : VersionEq(l.child, e) /\ l.child.download)

\* C2: in the closure returned, every walked release R has the selected release R'
\* of each of its active normal/build dependencies in the closure, and R' is
\* download-flagged when R is and the dependency's guard is true.
C2_EdgesClosed ==
    pc = "Ok" =>
        \A v \in visits : \A i \in DependencyIndexes(v) :
            Pulls(v, i) =>
                /\ InSet(result, SelectedRelease(Release(index, v.crate_version).dependencies[i]))
                /\ ((v.is_root \/ FlagOf(result, v.crate_version))
                      /\ dependency_enabled_for_target(Release(index, v.crate_version).dependencies[i]).val)
                   => FlagOf(result, SelectedRelease(Release(index, v.crate_version).dependencies[i]))

\* C3: every root handed to get_required_dependencies is in the closure it
\* returns, with download flag true.
C3_RootsInClosure ==
    pc = "Ok" => \A r \in crate_versions : \E e \in result : VersionEq(e, r) /\ e.download

\* C4: no withdrawn release is ever inserted into the closure, and
\* add_dependency never returns one.
C4_NoWithdrawn ==
    /\ \A e \in required_dependencies : ~Release(index, e).yanked
    /\ \A l \in pulled : ~Release(index, l.child).yanked

\* C4 witness: the newest release of B is withdrawn and the one before it is in the closure
C4_Witness ==
    /\ index["B"][2].yanked
    /\ pc = "Ok"
    /\ InSet(result, index["B"][1])

\* C5: get_required_dependencies terminates, returning Ok or Err, for every
\* store and root set, also when the selected releases form a cycle: the walk
\* never enters a recursion or a loop that has no end.
C5_Terminates == pc \notin {"StackOverflow", "Hang"}

\* C6: two runs on the same store and root set return identical closures,
\* whatever the order in which the root set is iterated.
C6_Idempotent ==
    (pc = "Ok" /\ run = 2 /\ first.roots = crate_versions) => result = first.result

\* C7: for root sets S and S' with S a subset of S', every release of the
\* closure of S is in the closure of S', download-flagged there if it was so
\* in the closure of S.
C7_Monotone ==
    (pc = "Ok" /\ run = 2) =>
        \A e \in first.result : \E e2 \in result : VersionEq(e2, e) /\ (e.download => e2.download)

\* the enabled sets of all the contexts that reached the release of visit v
UnionEnabled(v) ==
    UNION {w.enabled : w \in {u \in visits : VersionEq(u.crate_version, v.crate_version) /\ u.is_root = v.is_root}}

\* C8: the dependencies of a walked release R that are in the closure, and the
\* features enabled in them, are those obtained under the union of the enabled
\* sets of all the contexts that reached R: every feature the union enables in
\* a dependency is enabled in some walk into it.
C8_UnionOfContexts ==
    pc = "Ok" =>
        \A v \in visits : \A i \in DependencyIndexes(v) :
            Pulls([v EXCEPT !.enabled = UnionEnabled(v)], i) =>
                /\ InSet(result, SelectedRelease(Release(index, v.crate_version).dependencies[i]))
                /\ \A g \in Range(ActivationOf(Release(index, v.crate_version), UnionEnabled(v), i, v.is_root).features) :
                      \E l \in pulled : /\ VersionEq(l.parent, v.crate_version)
                                        /\ l.is_root = v.is_root
                                        /\ l.dep = i
                                        /\ g \in l.features

\* the visit of the release selected for dependency number i of visit v
ChildVisit(v, i) ==
    [crate_version |-> [name |-> SelectedRelease(Release(index, v.crate_version).dependencies[i]).name,
                        vers |-> SelectedRelease(Release(index, v.crate_version).dependencies[i]).vers,
                        download |-> FALSE],
     enabled |-> Range(NormalizeFeatures(SelectedRelease(Release(index, v.crate_version).dependencies[i]),
                                         ActivationOf(Release(index, v.crate_version), v.enabled, i, v.is_root).features,
                                         Release(index, v.crate_version).dependencies[i].default_features)),
     is_root |-> FALSE]

\* C9: a release already in the closure is walked again: when B is reached
\* from a parent with feature set X and from another with feature set Y, B is
\* in the closure once, with every dependency of B active under X and every
\* dependency of B active under Y.
C9_NoShortCircuit ==
    pc = "Ok" =>
        /\ \A e1 \in result : \A e2 \in result : VersionEq(e1, e2) => e1 = e2
        /\ \A v \in visits : \A i \in DependencyIndexes(v) :
              Pulls(v, i) =>
                  \A j \in DependencyIndexes(ChildVisit(v, i)) :
                      Pulls(ChildVisit(v, i), j) =>
                          InSet(result, SelectedRelease(Release(index, ChildVisit(v, i).crate_version).dependencies[j]))

\* C9 witness: B was reached from A with x and from C with y, and D (active
\* under x only) and E (active under y only) are both in the closure
C9_Witness ==
    /\ pc = "Ok"
    /\ \E l \in pulled : l.parent.name = "A" /\ l.child.name = "B" /\ l.features = {"x"}
    /\ \E l \in pulled : l.parent.name = "C" /\ l.child.name = "B" /\ l.features = {"y"}
    /\ \E l \in pulled : l.parent.name = "B" /\ l.child.name = "D" /\ "y" \notin l.enabled
    /\ \E l \in pulled : l.parent.name = "B" /\ l.child.name = "E" /\ "x" \notin l.enabled
    /\ \E e \in result : e.name = "D"
    /\ \E e \in result : e.name = "E"
    /\ Cardinality({e \in result : e.name = "B"}) = 1

\* the dependency is required, force-activated at a root, or enabled by a
\* Dep or DepStrong entry of a feature reachable from the enabled set
Activated(release, enabled, dependency, is_root) ==
    \/ ~dependency.optional
    \/ is_root
    \/ \E f \in ReachableFeatures(parse_then_grow_features_table(release).table, enabled) :
          /\ f \in DOMAIN parse_then_grow_features_table(release).table
          /\ \E k \in 1..Len(parse_then_grow_features_table(release).table[f]) :
                /\ parse_then_grow_features_table(release).table[f][k].tag \in {"Dependency", "StrongDependencyFeature"}
                /\ parse_then_grow_features_table(release).table[f][k].dep_name = dependency.name

\* the call of add_dependency recorded in l pulled e through an enabled
\* normal/build dependency that e satisfies
EnabledEdge(l, e) ==
    /\ VersionEq(l.child, e)
    /\ (l.is_root /\ l.parent \in crate_versions) \/ (~l.is_root /\ InSet(required_dependencies, l.parent))
    /\ IsNormalOrBuild(Release(index, l.parent).dependencies[l.dep])
    /\ Release(index, l.parent).dependencies[l.dep].crate_name = e.name
    /\ SemverMatches(Release(index, l.parent).dependencies[l.dep].req, e.vers)
    /\ Activated(Release(index, l.parent), l.enabled, Release(index, l.parent).dependencies[l.dep], l.is_root)

\* C10: every release in the closure has a parent, a root or a closure member,
\* with an activated normal/build dependency on it whose requirement it
\* satisfies.
C10_PulledByEnabledEdge ==
    \A e \in required_dependencies : \E l \in pulled : EnabledEdge(l, e)

\* C10 witness: D is in the closure, pulled by B through its optional
\* dependency, which a feature enabled by the parent of B activates
C10_Witness ==
    /\ pc = "Ok"
    /\ \E e \in result : e.name = "D"
    /\ \E l \in pulled : l.parent.name = "B" /\ l.child.name = "D" /\ ~l.is_root /\ "x" \in l.enabled

\* the guard of dependency number i of visit v is false on TARGET_TRIPLE
GuardFalse(v, i) == ~dependency_enabled_for_target(Release(index, v.crate_version).dependencies[i]).val

\* the walker entered the release selected for dependency number i of visit v
Recursed(v, i) ==
    \E w \in visits : /\ ~w.is_root
                       /\ VersionEq(w.crate_version, ChildVisit(v, i).crate_version)
                       /\ w.enabled = ChildVisit(v, i).enabled

\* C11: an activated dependency whose guard is false is still resolved and
\* walked: its selected release is in the closure, index-only when no other
\* context reached it with a true flag, the walker entered it, and the
\* releases its own active dependencies select are in the closure.
C11_FalseGuardWalked ==
    pc = "Ok" =>
        \A v \in visits : \A i \in DependencyIndexes(v) :
            (Pulls(v, i) /\ GuardFalse(v, i)) =>
                /\ InSet(result, ChildVisit(v, i).crate_version)
                /\ (\A l \in pulled : VersionEq(l.child, ChildVisit(v, i).crate_version) => ~l.child.download)
                      => ~FlagOf(result, ChildVisit(v, i).crate_version)
                /\ Recursed(v, i)
                /\ \A j \in DependencyIndexes(ChildVisit(v, i)) :
                      Pulls(ChildVisit(v, i), j) =>
                          InSet(result, SelectedRelease(Release(index, ChildVisit(v, i).crate_version).dependencies[j]))

\* C11 witness: the only root is A, its dependency on B has a false guard, and
\* B is in the closure index-only with its dependency D beside it
C11_Witness ==
    /\ pc = "Ok"
    /\ crate_versions = {TopLevel("A", <<1, 0>>)}
    /\ ~dependency_enabled_for_target(index["A"][1].dependencies[1]).val
    /\ \E e \in result : e.name = "B" /\ ~e.download
    /\ \E w \in visits : w.crate_version.name = "B" /\ ~w.crate_version.download
    /\ \E e \in result : e.name = "D" /\ ~e.download

\* C12: in every visit the download flag handed to a child release is the
\* flag of the parent as visited (true for a root) AND the guard of the
\* dependency; below an index-only parent every child is index-only.
C12_FlagIsParentAndGuard ==
    \A l \in pulled :
        /\ l.child.download = ((l.is_root \/ l.parent.download)
                                 /\ dependency_enabled_for_target(Release(index, l.parent).dependencies[l.dep]).val)
        /\ (~l.is_root /\ ~l.parent.download) => ~l.child.download

\* C12 witness: D is visited index-only and its dependency on E, whose guard
\* names TARGET_TRIPLE, hands E an index-only flag
C12_Witness ==
    \E l \in pulled : /\ ~l.is_root
                       /\ ~l.parent.download
                       /\ Release(index, l.parent).dependencies[l.dep].target.kind = "triple"
                       /\ dependency_enabled_for_target(Release(index, l.parent).dependencies[l.dep]).val
                       /\ ~l.child.download

\* ------------------------------------------------------------------------
\* The destination registry (src/src/dst_registry.rs)
\*
\* A path is the sequence of its components below the destination path and
\* a component is a sequence of tokens: index/ab/cd/abcd is
\* <<INDEX_DIR, <<"a", "b">>, <<"c", "d">>, <<"a", "b", "c", "d">>>>.
\* A package name is the sequence of its characters and a version string is
\* one token.
\* ------------------------------------------------------------------------

INDEX_DIR == <<"index">>

REGISTRY_DIR == <<"registry">>

GIT_DIR == <<".git">>

SemaphorePermits == 100

\* releases a closure may hold, at most
MaxCrates == 2

Min(a, b) == IF a < b THEN a ELSE b

\* chars().take(k) and chars().skip(k)
Take(str, k) == SubSeq(str, 1, Min(k, Len(str)))

Skip(str, k) == SubSeq(str, Min(k, Len(str)) + 1, Len(str))

LowerChar(ch) ==
    CASE ch = "A" -> "a"
      [] ch = "B" -> "b"
      [] ch = "C" -> "c"
      [] ch = "D" -> "d"
      [] OTHER -> ch

\* str::to_lowercase
to_lowercase(str) == [k \in 1..Len(str) |-> LowerChar(str[k])]

\* the directories fs::create_dir makes on the way to path, below index/
Made(path) == {SubSeq(path, 1, k) : k \in 2..Len(path)}

\* a layout that knows the arm of the long names only
IndexPathLongLayout(crat) ==
    <<INDEX_DIR, Take(to_lowercase(crat.name), 2), Take(Skip(to_lowercase(crat.name), 2), 2)>>

\* the directory of the index file of crat
get_crate_index_path(crat) ==
    LET crate_name == to_lowercase(crat.name) IN
    CASE Len(crate_name) = 1 -> <<INDEX_DIR, <<"1">>>>
      [] Len(crate_name) = 2 -> <<INDEX_DIR, <<"2">>>>
      [] Len(crate_name) = 3 -> <<INDEX_DIR, <<"3">>, Take(crate_name, 1)>>
      [] OTHER -> <<INDEX_DIR, Take(crate_name, 2), Take(Skip(crate_name, 2), 2)>>

\* crat.to_json(): the metadata line of the release
to_json(crat) == [name |-> crat.name, vers |-> crat.vers]

\* OpenOptions::new().create(true).append(true), then write_all
AppendLine(fs_files, path, line) ==
    [f \in DOMAIN fs_files \cup {path} |->
        IF f = path THEN (IF path \in DOMAIN fs_files THEN Append(fs_files[path], line) ELSE <<line>>)
        ELSE fs_files[f]]

\* fs::write
WriteFile(fs_files, path, contents) ==
    [f \in DOMAIN fs_files \cup {path} |-> IF f = path THEN contents ELSE fs_files[f]]

\* The result is [dirs, files]: the file system after add_crate_to_index.
add_crate_to_index(fs_dirs, fs_files, crat) ==
    [dirs |-> fs_dirs \cup Made(get_crate_index_path(crat)),
     files |-> AppendLine(fs_files, Append(get_crate_index_path(crat), to_lowercase(crat.name)), to_json(crat))]

\* fs::read_dir
ReadDir(fs_dirs, fs_files, dir) ==
    {e \in fs_dirs \cup DOMAIN fs_files : Len(e) = Len(dir) + 1 /\ SubSeq(e, 1, Len(dir)) = dir}

\* pathdiff::diff_paths(entry.path(), index_dir_path)
diff_paths(path, base) == SubSeq(path, Len(base) + 1, Len(path))

\* a walk that stages the regular files it is handed and enters no directory
AddFileNoDescent(fs_dirs, fs_files, index_dir_path, staged, entry) ==
    IF entry \in DOMAIN fs_files THEN staged \cup {diff_paths(entry, index_dir_path)} ELSE staged

\* the paths staged in the git index after add_file_to_git_repo(entry)
RECURSIVE add_file_to_git_repo(_, _, _, _, _)
RECURSIVE AddEntries(_, _, _, _, _)
add_file_to_git_repo(fs_dirs, fs_files, index_dir_path, staged, entry) ==
    IF entry \in DOMAIN fs_files
    THEN staged \cup {diff_paths(entry, index_dir_path)}
    ELSE IF entry \in fs_dirs /\ entry[Len(entry)] # GIT_DIR
         THEN AddEntries(fs_dirs, fs_files, index_dir_path, staged, ReadDir(fs_dirs, fs_files, entry))
         ELSE staged

\* for entry in entries { add_file_to_git_repo(..) }
AddEntries(fs_dirs, fs_files, index_dir_path, staged, entries) ==
    IF entries = {} THEN staged
    ELSE LET entry == CHOOSE e \in entries : TRUE IN
         AddEntries(fs_dirs, fs_files, index_dir_path,
                    add_file_to_git_repo(fs_dirs, fs_files, index_dir_path, staged, entry),
                    entries \ {entry})

\* index.write_tree(): the staged paths with the contents they had when staged
write_tree(fs_files, index_dir_path, staged) == [q \in staged |-> fs_files[index_dir_path \o q]]

\* repo.commit(Some("HEAD"), .., &tree, &[])
commit_git_repo(git, tree) == [git EXCEPT !.commits = Append(@, [parents |-> <<>>, tree |-> tree])]

\* a body that commits before the package files are written
CommitBeforeCrates(step) ==
    CASE step = "create_dir" -> "create_git_repo"
      [] step = "create_git_repo" -> "write_config_json_file"
      [] step = "write_config_json_file" -> "add_files_to_git_repo"
      [] step = "add_files_to_git_repo" -> "add_crates_to_index"
      [] OTHER -> "populate_registry"

\* the statement of populate_index, and then of populate, that follows step
populate_index_next(step) ==
    CASE step = "create_dir" -> "create_git_repo"
      [] step = "create_git_repo" -> "write_config_json_file"
      [] step = "write_config_json_file" -> "add_crates_to_index"
      [] step = "add_crates_to_index" -> "add_files_to_git_repo"
      [] OTHER -> "populate_registry"

\* The result is [dirs, files]: the file system after add_crate_to_registry.
add_crate_to_registry(fs_dirs, fs_files, name, version, file_contents) ==
    [dirs |-> fs_dirs \cup {<<REGISTRY_DIR, name>>, <<REGISTRY_DIR, name, version>>},
     files |-> WriteFile(fs_files, <<REGISTRY_DIR, name, version, <<"download">>>>, file_contents)]

\* What the JoinHandle of a task yields for what happened to the task: io is
\* "ok", or the call that failed ("get", "bytes", "write"), or "panic".
download_crate(io) ==
    CASE io = "ok" -> "Ok"
      [] io \in {"get", "bytes"} -> "DownloadCrate"
      [] io = "write" -> "WriteRegistryFile"
      [] OTHER -> "JoinError"

\* a loop that pushes the handle without waiting for the task
JoinableAtOnce(task) == TRUE

\* tokio::spawn(..).await: the loop goes on when the task has ended
Joinable(task) == task # "running"

\* the loop of populate_registry over the results of download_crates
populate_registry_result(task_results) ==
    IF \E k \in 1..Len(task_results) : task_results[k] = "JoinError" THEN "DownloadCrate" ELSE "Ok"

\* the fetch tasks spawned and not ended
InFlight == {k \in 1..Len(tasks) : tasks[k] = "running"}

\* the closures populate is run on
DstNames == {<<"a">>, <<"A">>, <<"a", "b">>, <<"a", "b", "c">>, <<"A", "b", "c", "d">>, <<"a", "b", "c", "d", "e">>}

DstVersions(name) == IF Len(name) = 5 THEN {<<"1.0">>, <<"1.1">>} ELSE {<<"1.0">>}

DstReleases == UNION {[name : {n}, vers : DstVersions(n), download : BOOLEAN] : n \in DstNames}

Closures == {S \in SUBSET DstReleases : Cardinality(S) <= MaxCrates /\ \A a \in S : \A b \in S : VersionEq(a, b) => a = b}

\* DstRegistry::new has left an empty directory at the destination path
PopulateInit ==
    /\ WalkerIdle
    /\ crates \in Closures
    /\ dirs = {<<>>}
    /\ files = <<>>
    /\ repo = [commits |-> <<>>]
    /\ dst_pc = "create_dir"
    /\ unindexed = crates
    /\ crates_vec = <<>>
    /\ tasks = <<>>
    /\ results = <<>>
    /\ permits = 0
    /\ requested = {}
    /\ ret = "none"

\* an error of populate_index that populate notes and does not return at once
FailAndGoOn(error) == dst_pc' = "populate_registry" /\ ret' = error

\* return Err(error)
Fail(error) == dst_pc' = "done" /\ ret' = error

\* fs::create_dir(&index_dir_path)
CreateIndexDir ==
    /\ dst_pc = "create_dir"
    /\ \E ok \in BOOLEAN :
         IF ok
         THEN /\ dirs' = dirs \cup {<<INDEX_DIR>>}
              /\ dst_pc' = populate_index_next("create_dir")
              /\ UNCHANGED ret
         ELSE Fail("CreateIndexDir") /\ UNCHANGED dirs
    /\ UNCHANGED <<crates, files, repo, unindexed, crates_vec, tasks, results, permits, requested>>
    /\ UNCHANGED walker_vars

\* Repository::init(index_dir_path)
CreateGitRepo ==
    /\ dst_pc = "create_git_repo"
    /\ \E ok \in BOOLEAN :
         IF ok
         THEN /\ dirs' = dirs \cup {<<INDEX_DIR, GIT_DIR>>, <<INDEX_DIR, GIT_DIR, <<"refs">>>>}
              /\ files' = WriteFile(WriteFile(files, <<INDEX_DIR, GIT_DIR, <<"HEAD">>>>, <<"ref">>),
                                    <<INDEX_DIR, GIT_DIR, <<"config">>>>, <<"core">>)
              /\ dst_pc' = populate_index_next("create_git_repo")
              /\ UNCHANGED ret
         ELSE Fail("InitGitRepo") /\ UNCHANGED <<dirs, files>>
    /\ UNCHANGED <<crates, repo, unindexed, crates_vec, tasks, results, permits, requested>>
    /\ UNCHANGED walker_vars

WriteConfigJsonFile ==
    /\ dst_pc = "write_config_json_file"
    /\ \E ok \in BOOLEAN :
         IF ok
         THEN /\ files' = WriteFile(files, <<INDEX_DIR, <<"config.json">>>>, <<"dl">>)
              /\ dst_pc' = populate_index_next("write_config_json_file")
              /\ UNCHANGED ret
         ELSE Fail("WriteConfigJson") /\ UNCHANGED files
    /\ UNCHANGED <<crates, dirs, repo, unindexed, crates_vec, tasks, results, permits, requested>>
    /\ UNCHANGED walker_vars

\* one turn of the loop of add_crates_to_index, over a HashSet
AddCrateToIndex ==
    /\ dst_pc = "add_crates_to_index"
    /\ \E crat \in unindexed : \E ok \in BOOLEAN :
         IF ok
         THEN /\ dirs' = add_crate_to_index(dirs, files, crat).dirs
              /\ files' = add_crate_to_index(dirs, files, crat).files
              /\ unindexed' = unindexed \ {crat}
              /\ UNCHANGED <<dst_pc, ret>>
         ELSE Fail("AddCrateToIndex") /\ UNCHANGED <<dirs, files, unindexed>>
    /\ UNCHANGED <<crates, repo, crates_vec, tasks, results, permits, requested>>
    /\ UNCHANGED walker_vars

\* the end of the loop of add_crates_to_index
AddCratesToIndexEnd ==
    /\ dst_pc = "add_crates_to_index"
    /\ unindexed = {}
    /\ dst_pc' = populate_index_next("add_crates_to_index")
    /\ UNCHANGED <<crates, dirs, files, repo, unindexed, crates_vec, tasks, results, permits, requested, ret>>
    /\ UNCHANGED walker_vars

\* add_files_to_git_repo: the walk over index/, index.write() and the commit
AddFilesToGitRepo ==
    /\ dst_pc = "add_files_to_git_repo"
    /\ \E io \in {"ok", "AddFileToGitRepo", "CommitGitRepo"} :
         IF io = "ok"
         THEN /\ repo' = commit_git_repo(repo,
                            write_tree(files, <<INDEX_DIR>>,
                                AddEntries(dirs, files, <<INDEX_DIR>>, {}, ReadDir(dirs, files, <<INDEX_DIR>>))))
              /\ dst_pc' = populate_index_next("add_files_to_git_repo")
              /\ UNCHANGED ret
         ELSE Fail(io) /\ UNCHANGED repo
    /\ UNCHANGED <<crates, dirs, files, unindexed, crates_vec, tasks, results, permits, requested>>
    /\ UNCHANGED walker_vars

\* populate_registry up to the call of download_crates: the registry
\* directory, the Vec of the closure in the order the HashSet yields it, the
\* runtime and the semaphore
PopulateRegistry ==
    /\ dst_pc = "populate_registry"
    /\ \E io \in {"ok", "CreateRegistryDir", "CreateRuntime"} : \E v \in Perms(crates) :
         IF io = "ok"
         THEN /\ dirs' = dirs \cup {<<REGISTRY_DIR>>}
              /\ crates_vec' = v
              /\ permits' = SemaphorePermits
              /\ dst_pc' = "download_crates"
              /\ UNCHANGED ret
         ELSE /\ Fail(io)
              /\ dirs' = IF io = "CreateRuntime" THEN dirs \cup {<<REGISTRY_DIR>>} ELSE dirs
              /\ UNCHANGED <<crates_vec, permits>>
    /\ UNCHANGED <<crates, files, repo, unindexed, tasks, results, requested>>
    /\ UNCHANGED walker_vars

\* a loop that spawns the next task while the last one is still running
SpawnAhead ==
    /\ dst_pc = "download_crates"
    /\ Len(tasks) < Len(crates_vec)
    /\ permits > 0
    /\ permits' = permits - 1
    /\ tasks' = Append(tasks, "running")
    /\ UNCHANGED <<crates, dirs, files, repo, dst_pc, unindexed, crates_vec, results, requested, ret>>
    /\ UNCHANGED walker_vars

\* let _permit = sem.acquire().await; tokio::spawn(..)
SpawnDownload ==
    /\ dst_pc = "download_crates"
    /\ Len(tasks) = Len(results)
    /\ Len(tasks) < Len(crates_vec)
    /\ permits > 0
    /\ permits' = permits - 1
    /\ tasks' = Append(tasks, "running")
    /\ UNCHANGED <<crates, dirs, files, repo, dst_pc, unindexed, crates_vec, results, requested, ret>>
    /\ UNCHANGED walker_vars

\* the task: download_crate(&name, &version, &path), on a worker of the runtime
DownloadCrate ==
    /\ \E k \in InFlight : \E io \in {"ok", "get", "bytes", "write", "panic"} :
         /\ tasks' = [tasks EXCEPT ![k] = download_crate(io)]
         /\ requested' = IF io = "panic" THEN requested ELSE requested \cup {crates_vec[k]}
         /\ dirs' = IF io = "ok"
                    THEN add_crate_to_registry(dirs, files, crates_vec[k].name, crates_vec[k].vers, <<"bytes">>).dirs
                    ELSE dirs
         /\ files' = IF io = "ok"
                     THEN add_crate_to_registry(dirs, files, crates_vec[k].name, crates_vec[k].vers, <<"bytes">>).files
                     ELSE files
    /\ UNCHANGED <<crates, repo, dst_pc, unindexed, crates_vec, results, permits, ret>>
    /\ UNCHANGED walker_vars

\* .await of the JoinHandle, results.push(result), and the end of the turn,
\* where _permit is dropped
JoinDownload ==
    /\ dst_pc = "download_crates"
    /\ Len(tasks) = Len(results) + 1
    /\ Joinable(tasks[Len(tasks)])
    /\ results' = Append(results, tasks[Len(tasks)])
    /\ permits' = permits + 1
    /\ UNCHANGED <<crates, dirs, files, repo, dst_pc, unindexed, crates_vec, tasks, requested, ret>>
    /\ UNCHANGED walker_vars

\* the end of download_crates and the loop of populate_registry over results
CollectResults ==
    /\ dst_pc = "download_crates"
    /\ Len(results) = Len(crates_vec)
    /\ dst_pc' = "done"
    /\ ret' = populate_registry_result(results)
    /\ UNCHANGED <<crates, dirs, files, repo, unindexed, crates_vec, tasks, results, permits, requested>>
    /\ UNCHANGED walker_vars

PopulateNext ==
    \/ CreateIndexDir
    \/ CreateGitRepo
    \/ WriteConfigJsonFile
    \/ AddCrateToIndex
    \/ AddCratesToIndexEnd
    \/ AddFilesToGitRepo
    \/ PopulateRegistry
    \/ SpawnDownload
    \/ DownloadCrate
    \/ JoinDownload
    \/ CollectResults

SpecPopulate == PopulateInit /\ [][PopulateNext]_vars

\* ------------------------------------------------------------------------
\* What the claims on the destination registry speak of
\* ------------------------------------------------------------------------

\* the archive file of a release
ArchiveFile(crat) == <<REGISTRY_DIR, crat.name, crat.vers, <<"download">>>>

\* the index file the layout rule gives a release
ClaimedIndexFile(crat) ==
    LET n == to_lowercase(crat.name) IN
    CASE Len(n) = 1 -> <<INDEX_DIR, <<"1">>, n>>
      [] Len(n) = 2 -> <<INDEX_DIR, <<"2">>, n>>
      [] Len(n) = 3 -> <<INDEX_DIR, <<"3">>, <<n[1]>>, n>>
      [] OTHER -> <<INDEX_DIR, <<n[1], n[2]>>, <<n[3], n[4]>>, n>>

\* the regular files under index/ that are not in its .git directory
WorkingTreeFiles == {f \in DOMAIN files : Len(f) >= 2 /\ f[1] = INDEX_DIR /\ f[2] # GIT_DIR}

\* the per-package files among them
PackageFiles == WorkingTreeFiles \ {<<INDEX_DIR, <<"config.json">>>>}

HasLine(f, crat) == \E k \in 1..Len(files[f]) : files[f][k] = to_json(crat)

\* populate_index has returned Ok
IndexPopulated ==
    \/ dst_pc \in {"populate_registry", "download_crates"}
    \/ dst_pc = "done" /\ ret \in {"Ok", "CreateRegistryDir", "CreateRuntime", "DownloadCrate"}

\* C13: populate requests and writes the archive of a closure release only
\* when the release is download-flagged; an index-only release has no fetch
\* and no archive file, and its metadata line is in the index all the same.
C13_FetchOnlyFlagged ==
    /\ \A crat \in requested : crat.download
    /\ \A crat \in crates : ArchiveFile(crat) \in DOMAIN files => crat.download
    /\ IndexPopulated => \A crat \in crates : \E f \in PackageFiles : HasLine(f, crat)

\* C14: populate returns Ok only when every fetch succeeded: a fetch whose
\* request, body or file write failed makes populate return an error.
C14_FetchFailureIsFatal ==
    (dst_pc = "done" /\ ret = "Ok") => \A k \in 1..Len(results) : results[k] = "Ok"

\* C15: at every point of download_crates the fetch tasks in flight are no more
\* than the permits taken from the semaphore, which has 100: never more than
\* 100 in flight, whatever the size of the closure.
C15_InFlightBounded ==
    /\ Cardinality(InFlight) <= SemaphorePermits
    /\ dst_pc = "download_crates" =>
          /\ permits \in 0..SemaphorePermits
          /\ Cardinality(InFlight) <= SemaphorePermits - permits

\* C15 witness: a fetch task is in flight under a permit
C15_Witness ==
    /\ dst_pc = "download_crates"
    /\ Cardinality(InFlight) = 1
    /\ permits = SemaphorePermits - 1

\* C16: once the commit exists, its tree holds config.json and the metadata
\* line of every release of the closure, and every file under index/ is as the
\* tree has it: all were written before the tree was built and none is
\* written afterwards.
C16_WritesBeforeCommit ==
    repo.commits # <<>> =>
        /\ <<<<"config.json">>>> \in DOMAIN repo.commits[Len(repo.commits)].tree
        /\ \A crat \in crates :
              /\ diff_paths(ClaimedIndexFile(crat), <<INDEX_DIR>>) \in DOMAIN repo.commits[Len(repo.commits)].tree
              /\ \E k \in 1..Len(repo.commits[Len(repo.commits)].tree[diff_paths(ClaimedIndexFile(crat), <<INDEX_DIR>>)]) :
                    repo.commits[Len(repo.commits)].tree[diff_paths(ClaimedIndexFile(crat), <<INDEX_DIR>>)][k] = to_json(crat)
        /\ \A f \in WorkingTreeFiles :
              /\ diff_paths(f, <<INDEX_DIR>>) \in DOMAIN repo.commits[Len(repo.commits)].tree
              /\ repo.commits[Len(repo.commits)].tree[diff_paths(f, <<INDEX_DIR>>)] = files[f]

\* C16 witness: populate returned Ok for a closure of two releases, with an
\* archive written after the commit
C16_Witness ==
    /\ dst_pc = "done"
    /\ ret = "Ok"
    /\ Cardinality(crates) = 2
    /\ repo.commits # <<>>
    /\ \E crat \in crates : ArchiveFile(crat) \in DOMAIN files

\* C17: after populate_index succeeds the repository has one commit, without
\* parent, whose tree holds every regular file under index/ at any depth and
\* nothing of the .git directory.
C17_OneRootCommit ==
    IndexPopulated =>
        /\ Len(repo.commits) = 1
        /\ repo.commits[1].parents = <<>>
        /\ DOMAIN repo.commits[1].tree = {diff_paths(f, <<INDEX_DIR>>) : f \in WorkingTreeFiles}

\* C17 witness: the tree holds a package file three directories deep beside
\* config.json, and the .git directory has files of its own
C17_Witness ==
    /\ IndexPopulated
    /\ \E q \in DOMAIN repo.commits[1].tree : Len(q) = 3
    /\ <<<<"config.json">>>> \in DOMAIN repo.commits[1].tree
    /\ <<INDEX_DIR, GIT_DIR, <<"HEAD">>>> \in DOMAIN files

\* C18: the metadata line of a release is written to the file the layout rule
\* gives its lower-cased name, and to no other; releases whose names differ
\* only in letter case share one index file.
C18_IndexFileByLowerCasedName ==
    /\ \A crat \in crates \ unindexed :
          /\ ClaimedIndexFile(crat) \in PackageFiles
          /\ \A f \in PackageFiles : HasLine(f, crat) <=> f = ClaimedIndexFile(crat)
    /\ \A c1 \in crates \ unindexed : \A c2 \in crates \ unindexed :
          to_lowercase(c1.name) = to_lowercase(c2.name) =>
              \E f \in PackageFiles : HasLine(f, c1) /\ HasLine(f, c2)

\* C18 witness: the releases a 1.0 and A 1.0 are both in index/1/a, and a
\* release with a name of three characters is indexed too
C18_Witness ==
    /\ unindexed = {}
    /\ \E c1 \in crates : \E c2 \in crates :
          /\ c1.name = <<"a">>
          /\ c2.name = <<"A">>
          /\ <<INDEX_DIR, <<"1">>, <<"a">>>> \in DOMAIN files
          /\ Len(files[<<INDEX_DIR, <<"1">>, <<"a">>>>]) = 2

\* ------------------------------------------------------------------------
\* Activation: the walker over stores built round one release R, reached
\* from the root P with a list of enabled features, whose only dependency D
\* is optional or required and whose feature table is drawn from the raw
\* entries below
\* ------------------------------------------------------------------------

\* entries a feature of R may list, at most
MaxEntries == 2

SeqsUpTo(S, n) == UNION {[1..k -> S] : k \in 0..n}

\* raw entries: two features and the three forms that name D
RawEntries == {<<"y">>, <<"z">>, <<"dep:", "D">>, <<"D", "/", "g">>, <<"dep:", "D", "?", "/", "h">>}

EntriesY == {<<>>, <<(<<"z">>)>>, <<(<<"D", "/", "h">>)>>, <<(<<"dep:", "D", "?", "/", "g">>)>>}

EntriesZ == {<<>>, <<(<<"dep:", "D">>)>>, <<(<<"x">>)>>}

EnabledLists == {<<>>, <<"x">>, <<"y">>, <<"x", "y">>, <<"y", "x">>, <<"z", "x">>, <<"nosuch", "z">>, <<"D">>}

ActivationParams ==
    [ex : SeqsUpTo(RawEntries, MaxEntries), ey : EntriesY, ez : EntriesZ,
     enabled : EnabledLists, features : {<<>>, <<"g">>, <<"g", "g">>}, optional : BOOLEAN, root : {"P", "R"},
     declares : BOOLEAN]

\* the features R declares: x, y and z, and in some stores a feature with the
\* name of its dependency
TableR(q) ==
    IF q.declares
    THEN ("x" :> q.ex) @@ ("y" :> q.ey) @@ ("z" :> q.ez) @@ ("D" :> <<(<<"y">>)>>)
    ELSE ("x" :> q.ex) @@ ("y" :> q.ey) @@ ("z" :> q.ez)

MkActivationIndex(q) ==
    ("P" :> <<CrateVersion("P", <<1, 0>>, FALSE,
                <<Dependency("R", Caret(1, 0), "normal", FALSE, FALSE, q.enabled, NoTarget)>>, NoFeatures)>>) @@
    ("R" :> <<CrateVersion("R", <<1, 0>>, FALSE,
                <<Dependency("D", Caret(1, 0), "normal", q.optional, TRUE, q.features, NoTarget)>>,
                TableR(q))>>) @@
    ("D" :> <<CrateVersion("D", <<1, 0>>, FALSE, <<>>, ("g" :> <<>>) @@ ("h" :> <<>>))>>)

\* R is the root itself in the stores where P asks no feature of it; the
\* dependency lists a feature twice, or R declares a feature D, in the stores
\* where y and z are empty
ActivationInit ==
    /\ \E q \in ActivationParams :
         /\ q.root = "R" => q.enabled = <<>>
         /\ q.features = <<"g", "g">> => (q.ey = <<>> /\ q.ez = <<>>)
         /\ q.declares => (q.ey = <<>> /\ q.ez = <<>> /\ q.features = <<>>)
         /\ index = MkActivationIndex(q)
         /\ crate_versions = {TopLevel(q.root, <<1, 0>>)}
    /\ todo = crate_versions
    /\ required_dependencies = {}
    /\ stack = <<>>
    /\ pc = "run"
    /\ result = {}
    /\ run = 1
    /\ first = [roots |-> {}, result |-> {}]
    /\ visits = {}
    /\ pulled = {}
    /\ exit_code = -1
    /\ DstIdle

ActivationNext == AnalyzeRoot \/ ProcessEnabledDependency \/ Return \/ Finish

SpecActivation == ActivationInit /\ [][ActivationNext]_vars

\* the parsed and grown feature table of the release of visit v
TableOf(v) == parse_then_grow_features_table(Release(index, v.crate_version)).table

\* the entries of the features of the table reachable from enabled
ReachableEntries(table, enabled) ==
    UNION {{table[f][k] : k \in 1..Len(table[f])} : f \in {g \in ReachableFeatures(table, enabled) : g \in DOMAIN table}}

\* some reachable feature holds a Dep or DepStrong entry for the dependency
HoldsActivator(table, enabled, dependency) ==
    \E e \in ReachableEntries(table, enabled) :
        e.tag \in {"Dependency", "StrongDependencyFeature"} /\ e.dep_name = dependency.name

\* H \cup W: the features the dependency lists, and those of the reachable
\* DepStrong and DepWeak entries for it
UnionOfFeatures(table, enabled, dependency) ==
    Range(dependency.features) \cup
    {e.feature : e \in {x \in ReachableEntries(table, enabled) :
                            /\ x.tag \in {"StrongDependencyFeature", "WeakDependencyFeature"}
                            /\ x.dep_name = dependency.name}}

\* the calls of add_dependency made for dependency number i in visit v
PulledBy(v, i) ==
    {l \in pulled : l.parent = v.crate_version /\ l.is_root = v.is_root /\ l.enabled = v.enabled /\ l.dep = i}

\* the list holds the features the dependency lists, as it lists them, and
\* every other feature once
AddedOnce(list, dependency) ==
    Len(list) = Len(dependency.features) + Cardinality(Range(list) \ Range(dependency.features))

\* C19: in the visit of a non-root release with enabled set E, an optional
\* normal/build dependency is resolved if and only if a feature reachable
\* from E holds a Dep or DepStrong entry for it; with DepWeak entries alone,
\* or none, add_dependency is not called and nothing enters the closure.
C19_ActivatedIffActivator ==
    pc \in {"run", "Ok"} =>
        \A v \in visits : \A i \in DependencyIndexes(v) :
            (/\ ~v.is_root
             /\ Release(index, v.crate_version).dependencies[i].optional
             /\ IsNormalOrBuild(Release(index, v.crate_version).dependencies[i])) =>
                /\ PulledBy(v, i) # {}
                      <=> HoldsActivator(TableOf(v), v.enabled, Release(index, v.crate_version).dependencies[i])
                /\ PulledBy(v, i) = {} =>
                      ~InSet(required_dependencies, SelectedRelease(Release(index, v.crate_version).dependencies[i]))
                         \/ \E l \in pulled : VersionEq(l.child, SelectedRelease(Release(index, v.crate_version).dependencies[i]))

\* C19 witness: R was visited with a feature that holds a DepWeak entry for D
\* and none that activates it, and the closure holds R alone
C19_Witness ==
    /\ pc = "Ok"
    /\ "R" \in DOMAIN index
    /\ \E v \in visits :
          /\ v.crate_version.name = "R"
          /\ ~v.is_root
          /\ \E e \in ReachableEntries(TableOf(v), v.enabled) : e.tag = "WeakDependencyFeature"
          /\ PulledBy(v, 1) = {}
    /\ \A e \in result : e.name = "R"

C21_RootsForceOptional ==
    pc \in {"run", "Ok"} =>
        \A v \in visits : \A i \in DependencyIndexes(v) :
            (/\ Release(index, v.crate_version).dependencies[i].optional
             /\ IsNormalOrBuild(Release(index, v.crate_version).dependencies[i])) =>
                IF v.is_root
                THEN /\ v.enabled = DOMAIN TableOf(v)
                     /\ SelectionOf(Release(index, v.crate_version).dependencies[i]).found =>
                           /\ PulledBy(v, i) # {}
                           /\ InSet(required_dependencies, SelectedRelease(Release(index, v.crate_version).dependencies[i]))
                ELSE ~HoldsActivator(TableOf(v), v.enabled, Release(index, v.crate_version).dependencies[i])
                        => PulledBy(v, i) = {}

\* C21 witness: the root R has the optional dependency D, its table holds a
\* DepWeak entry for D and no activator, and D 1.0 is in the returned closure
C21_Witness ==
    /\ pc = "Ok"
    /\ \E v \in visits :
          /\ v.is_root
          /\ v.crate_version.name = "R"
          /\ Release(index, v.crate_version).dependencies[1].optional
          /\ "D" \notin v.enabled
          /\ ~HoldsActivator(TableOf(v), v.enabled, Release(index, v.crate_version).dependencies[1])
          /\ PulledBy(v, 1) # {}
    /\ \E e \in result : e.name = "D"

\* the table of the declared features as parsed, before the implicit features
\* are added, with the optional dependencies no dep: entry has suppressed
ParsedOf(v) ==
    ParseFeatures(Release(index, v.crate_version), DOMAIN Release(index, v.crate_version).features,
                  [ok |-> TRUE, table |-> <<>>,
                   implicit |-> {Release(index, v.crate_version).dependencies[i].name : i \in
                                   {j \in DependencyIndexes(v) :
                                       /\ Release(index, v.crate_version).dependencies[j].optional
                                       /\ IsNormalOrBuild(Release(index, v.crate_version).dependencies[j])}}])

\* C22: the grown table of a visited release holds each declared feature with
\* its declared entry list, also when an optional dependency has the name of
\* the feature, and the entry n -> [Dep(n)] for every optional dependency n
\* that was never suppressed and is no declared feature.
C22_DeclaredEntriesKept ==
    \A v \in visits :
        ParsedOf(v).ok =>
            /\ \A f \in DOMAIN Release(index, v.crate_version).features :
                  f \in DOMAIN TableOf(v) /\ TableOf(v)[f] = ParsedOf(v).table[f]
            /\ \A n \in ParsedOf(v).implicit \ DOMAIN Release(index, v.crate_version).features :
                  n \in DOMAIN TableOf(v) /\ TableOf(v)[n] = <<DependencyEntry(n)>>
            /\ DOMAIN TableOf(v) = DOMAIN Release(index, v.crate_version).features \cup ParsedOf(v).implicit

\* the raw entries of the features of a release
RawEntriesOf(release) ==
    UNION {{release.features[f][k] : k \in 1..Len(release.features[f])} : f \in DOMAIN release.features}

\* an entry names the dependency n under the dep: prefix, or without it
UnderDepPrefix(entry, n) == HasDepPrefix(entry) /\ Len(entry) >= 2 /\ entry[2] = n

WithoutDepPrefix(entry, n) == Len(entry) >= 1 /\ entry[1] = n

\* C23: in the grown table of a visited release, an optional normal/build
\* dependency n that is no declared feature has no implicit feature n exactly
\* when the raw table names it and every entry that names it has the dep:
\* prefix; never named, or named once without the prefix, it has one.
C23_SuppressedIffOnlyDepPrefix ==
    \A v \in visits : \A i \in DependencyIndexes(v) :
        (/\ ParsedOf(v).ok
         /\ Release(index, v.crate_version).dependencies[i].optional
         /\ IsNormalOrBuild(Release(index, v.crate_version).dependencies[i])
         /\ Release(index, v.crate_version).dependencies[i].name \notin DOMAIN Release(index, v.crate_version).features) =>
            (Release(index, v.crate_version).dependencies[i].name \notin DOMAIN TableOf(v)
                <=> /\ \E e \in RawEntriesOf(Release(index, v.crate_version)) :
                          UnderDepPrefix(e, Release(index, v.crate_version).dependencies[i].name)
                    /\ \A e \in RawEntriesOf(Release(index, v.crate_version)) :
                          ~WithoutDepPrefix(e, Release(index, v.crate_version).dependencies[i].name))

\* ------------------------------------------------------------------------
\* Faults: the walker and main over stores built round the root P, whose
\* first dependency Q has a release list, a requirement and a guard drawn
\* from the lists below, and whose second dependency S has an optional
\* dependency on a package the store does not hold and, in some stores, a
\* feature entry that names no optional dependency of S
\* ------------------------------------------------------------------------

\* a requirement semver::VersionReq::parse rejects
BadReq == [op |-> "bad", maj |-> 0, min |-> 0]

\* a cfg expression cfg_expr::Expression::parse rejects
BadCfg == [op |-> "bad", key |-> "", val |-> "", args |-> <<>>]

\* a release of Q: it declares the feature default and depends on T
ReleaseQ(vers, yanked, tt) ==
    CrateVersion("Q", vers, yanked, <<Dependency("T", Caret(1, 0), "normal", FALSE, TRUE, <<>>, tt)>>,
                 ("default" :> <<>>) @@ ("w" :> <<>>))

\* the release lists of Q, in repository order: sorted, not sorted, with
\* withdrawn releases, and with a version string semver does not parse
ListsQ(tt) ==
    <<<<ReleaseQ(<<1, 0>>, FALSE, tt), ReleaseQ(<<1, 1>>, FALSE, tt)>>,
     <<ReleaseQ(<<1, 1>>, FALSE, tt), ReleaseQ(<<1, 0>>, FALSE, tt)>>,
     <<ReleaseQ(<<1, 0>>, FALSE, tt), ReleaseQ(<<1, 1>>, TRUE, tt)>>,
     <<ReleaseQ(<<1, 0>>, TRUE, tt), ReleaseQ(<<1, 1>>, TRUE, tt)>>,
     <<ReleaseQ(<<1, 0>>, FALSE, tt), ReleaseQ(<<1>>, FALSE, tt)>>,
     <<ReleaseQ(<<1>>, FALSE, tt), ReleaseQ(<<1, 0>>, FALSE, tt)>>>>

FaultParams ==
    [lq : 0..Len(ListsQ(NoTarget)), tt : {NoTarget, CfgTarget(BadCfg)},
     req : {Caret(1, 0), Caret(2, 0), BadReq},
     tq : {NoTarget, TripleTarget("x86_64-unknown-linux-gnu"), CfgTarget(BadCfg)},
     fq : {<<>>, <<"default">>, <<"default", "default">>, <<"w", "default">>}, dq : BOOLEAN,
     strong : BOOLEAN, fs : {<<>>, <<"z">>}, ez : {<<"dep:", "Z">>, <<"dep:", "T">>}]

\* the store holds the list number lq of Q, and no package Q when lq = 0
MkFaultIndex(q) ==
    ("P" :> <<CrateVersion("P", <<1, 0>>, FALSE,
                <<Dependency("Q", q.req, "normal", FALSE, q.dq, q.fq, q.tq),
                  Dependency("S", Caret(1, 0), "normal", FALSE, TRUE, q.fs, NoTarget)>>,
                IF q.strong THEN ("p" :> <<(<<"Q", "/", "default">>)>>) ELSE NoFeatures)>>) @@
    ("S" :> <<CrateVersion("S", <<1, 0>>, FALSE,
                <<Dependency("Z", Caret(1, 0), "normal", TRUE, TRUE, <<>>, NoTarget)>>,
                ("z" :> <<q.ez>>))>>) @@
    ("T" :> <<CrateVersion("T", <<1, 0>>, FALSE, <<>>, NoFeatures)>>) @@
    (IF q.lq > 0 THEN ("Q" :> ListsQ(q.tt)[q.lq]) ELSE <<>>)

\* the Err variants of src_registry::Error the walker returns
Errors == {"CrateNotFound", "ConfigExpression", "SemVerRequirement", "SemVerVersion", "FeatureTable"}

FaultInit ==
    /\ \E q \in FaultParams :
         /\ q.lq = 0 => q.tt = NoTarget
         /\ index = MkFaultIndex(q)
    /\ crate_versions = {TopLevel("P", <<1, 0>>)}
    /\ todo = crate_versions
    /\ required_dependencies = {}
    /\ stack = <<>>
    /\ pc = "run"
    /\ result = {}
    /\ run = 1
    /\ first = [roots |-> {}, result |-> {}]
    /\ visits = {}
    /\ pulled = {}
    /\ exit_code = -1
    /\ DstIdle

\* fn main: if let Err(error) = try_main() { error!(..) }, and main returns:
\* the runtime ends the process with the status of a main that returned
main(try_main) == IF try_main = "Ok" THEN 0 ELSE 0

\* the end of try_main and of main, once get_required_dependencies has returned
Main ==
    /\ pc \in {"Ok"} \cup Errors
    /\ exit_code = -1
    /\ exit_code' = main(pc)
    /\ UNCHANGED <<index, crate_versions, todo, required_dependencies, stack, pc, result, run, first, visits, pulled>>
    /\ UNCHANGED dst_vars

FaultNext == AnalyzeRoot \/ ProcessEnabledDependency \/ Return \/ Finish \/ Main

SpecFaults == FaultInit /\ [][FaultNext]_vars

\* the dependency behind a record of the log of add_dependency
DependencyOf(l) == Release(index, l.parent).dependencies[l.dep]

\* the places, in the release list of its package, of the releases that are
\* not withdrawn and whose version satisfies the requirement of the dependency
Candidates(dependency) ==
    {j \in 1..Len(index[dependency.crate_name]) :
        /\ ~index[dependency.crate_name][j].yanked
        /\ SemverVersionParses(index[dependency.crate_name][j].vers)
        /\ SemverMatches(dependency.req, index[dependency.crate_name][j].vers)}

\* C24: the release add_dependency returns for a dependency is, among the
\* releases of its package that are not withdrawn and satisfy the
\* requirement, the one that comes last in repository order; a withdrawn
\* release is never returned.
C24_LastInRepositoryOrder ==
    \A l \in pulled :
        /\ l.child.name = DependencyOf(l).crate_name
        /\ \E j \in Candidates(DependencyOf(l)) :
              /\ l.child.vers = index[l.child.name][j].vers
              /\ \A k \in Candidates(DependencyOf(l)) : k <= j
        /\ \A j \in 1..Len(index[l.child.name]) :
              index[l.child.name][j].vers = l.child.vers => ~index[l.child.name][j].yanked

\* C24 witness: Q 1.1 comes before Q 1.0 in the list, neither is withdrawn
\* and both satisfy ^1.0: Q 1.0, the last of the list, is selected
C24_Witness ==
    /\ "Q" \in DOMAIN index
    /\ index["Q"][1].vers = <<1, 1>>
    /\ ~index["Q"][1].yanked
    /\ Candidates(Release(index, TopLevel("P", <<1, 0>>)).dependencies[1]) = {1, 2}
    /\ \E l \in pulled : l.child.name = "Q" /\ l.child.vers = <<1, 0>>

\* dependency number i of the release of visit v
DependencyAt(v, i) == Release(index, v.crate_version).dependencies[i]

\* the guard of dependency number i is evaluated and does not parse
GuardFails(v, i) ==
    /\ IsNormalOrBuild(DependencyAt(v, i))
    /\ v.is_root \/ v.crate_version.download
    /\ DependencyAt(v, i).target.kind = "cfg"
    /\ ~CfgParses(DependencyAt(v, i).target.expr)

\* dependency number i is walked and activated, and its guard raised nothing
Resolved(v, i) ==
    /\ IsNormalOrBuild(DependencyAt(v, i))
    /\ ~GuardFails(v, i)
    /\ ActivationOf(Release(index, v.crate_version), v.enabled, i, v.is_root).enabled

\* the store holds the package of the dependency, its requirement parses and
\* so does every version string the selection reads, and no release that is
\* not withdrawn satisfies the requirement
NoCompatible(dependency) ==
    /\ dependency.crate_name \in DOMAIN index
    /\ SemverReqParses(dependency.req)
    /\ \A j \in 1..Len(index[dependency.crate_name]) :
          index[dependency.crate_name][j].yanked \/ SemverVersionParses(index[dependency.crate_name][j].vers)
    /\ Candidates(dependency) = {}

\* the Err variant dependency number i raises when the loop reaches it, or "none"
FaultAt(v, i) ==
    CASE GuardFails(v, i) -> "ConfigExpression"
      [] ~Resolved(v, i) -> "none"
      [] DependencyAt(v, i).crate_name \notin DOMAIN index -> "CrateNotFound"
      [] ~SemverReqParses(DependencyAt(v, i).req) -> "SemVerRequirement"
      [] (\E j \in 1..Len(index[DependencyAt(v, i).crate_name]) :
             /\ ~index[DependencyAt(v, i).crate_name][j].yanked
             /\ ~SemverVersionParses(index[DependencyAt(v, i).crate_name][j].vers)
             /\ \A k \in Candidates(DependencyAt(v, i)) : k < j) -> "SemVerVersion"
      [] OTHER -> "none"

\* the dependencies of the visited release that raise an Err variant
Faults(v) == {i \in DependencyIndexes(v) : FaultAt(v, i) # "none"}

\* C25: an activated dependency whose package has no release that is both
\* not withdrawn and compatible adds nothing and is not recursed into, the
\* other dependencies of the release are still resolved, and the run fails
\* only if some other dependency or table is at fault.
C25_NoCompatibleIsSkipped ==
    \A v \in visits : \A i \in DependencyIndexes(v) :
        (Resolved(v, i) /\ NoCompatible(DependencyAt(v, i))) =>
            /\ PulledBy(v, i) = {}
            /\ \A k \in 1..Len(stack) : \A j \in 1..Len(stack[k].pending) :
                  stack[k].call.crate_version = v.crate_version
                     => stack[k].pending[j].crate_version.name # DependencyAt(v, i).crate_name
            /\ pc \in {"run", "Ok"} =>
                  \A j \in DependencyIndexes(v) : Pulls(v, j) => PulledBy(v, j) # {}
            /\ pc \in Errors => \E w \in visits : ~ParsedOf(w).ok \/ Faults(w) # {}

\* C25 witness: every release of Q is withdrawn, or none satisfies ^2.0; the
\* run has returned Ok with S, the next dependency of P, in the closure and
\* no release of Q
C25_Witness ==
    /\ pc = "Ok"
    /\ \E v \in visits : v.is_root /\ Resolved(v, 1) /\ NoCompatible(DependencyAt(v, 1)) /\ PulledBy(v, 2) # {}
    /\ \E e \in result : e.name = "S"
    /\ \A e \in result : e.name # "Q"

\* C26: when the loop over the dependencies of a visited release reaches an
\* activated dependency, with a true or a false guard, whose package the
\* store does not hold, the run ends with CrateNotFound; and CrateNotFound
\* is raised by such a dependency only, never by one that is not activated.
C26_MissingPackageIsFatal ==
    /\ \A v \in visits : \A i \in DependencyIndexes(v) :
          (/\ ParsedOf(v).ok
           /\ Resolved(v, i)
           /\ DependencyAt(v, i).crate_name \notin DOMAIN index
           /\ \A k \in 1..(i - 1) : FaultAt(v, k) = "none") => pc = "CrateNotFound"
    /\ pc = "CrateNotFound" =>
          \E v \in visits : \E i \in DependencyIndexes(v) :
              Resolved(v, i) /\ DependencyAt(v, i).crate_name \notin DOMAIN index
    /\ \A v \in visits :
          (/\ pc \in {"run", "Ok"}
           /\ \E i \in DependencyIndexes(v) :
                 ~Resolved(v, i) /\ DependencyAt(v, i).crate_name \notin DOMAIN index) =>
              \A l \in pulled : l.child.name \in DOMAIN index

\* C26 witness: the store holds no package Q, the guard of the dependency of
\* P on Q is false on the target, and the run has ended with CrateNotFound
C26_Witness ==
    /\ pc = "CrateNotFound"
    /\ "Q" \notin DOMAIN index
    /\ \E v \in visits :
          /\ v.is_root
          /\ ~dependency_enabled_for_target(DependencyAt(v, 1)).val
          /\ ~dependency_enabled_for_target(DependencyAt(v, 1)).err
    /\ required_dependencies = {}

\* the first dependency of the visited release that raises an Err variant
FirstFault(v) == CHOOSE i \in Faults(v) : \A k \in Faults(v) : i <= k

\* what the walker has done so far
Progress == <<visits, required_dependencies, pulled, stack, todo, result, pc>>

\* at the first fatal condition the run returns its Err variant
ReturnsFirstError ==
    \A v \in visits :
        /\ ~ParsedOf(v).ok => pc = "FeatureTable" /\ PulledBy(v, 1) = {}
        /\ (ParsedOf(v).ok /\ Faults(v) # {}) =>
              /\ pc = FaultAt(v, FirstFault(v))
              /\ \A j \in DependencyIndexes(v) : j >= FirstFault(v) => PulledBy(v, j) = {}

\* C27: the run stops at the first fatal condition (feature table, guard
\* expression, missing package, requirement or version string): it returns
\* the Err variant of that condition, no dependency after the failing one is
\* resolved, no release is visited afterwards and no closure is returned.
C27_StopsAtFirstFatal ==
    /\ [](ReturnsFirstError /\ (pc \in Errors => result = {}))
    /\ [][(pc \in Errors) => (Progress' = Progress)]_vars

\* C27 witness: the guard of the dependency of Q on T does not parse; the run
\* has ended with ConfigExpression in the visit of Q, with Q and S in
\* required_dependencies, S still waiting for its visit, and nothing returned
C27_Witness ==
    /\ pc = "ConfigExpression"
    /\ \E v \in visits : ~v.is_root /\ v.crate_version.name = "Q" /\ GuardFails(v, 1)
    /\ \E e \in required_dependencies : e.name = "S"
    /\ \A v \in visits : v.crate_version.name # "S"
    /\ \E k \in 1..Len(stack) : stack[k].pending # <<>>
    /\ result = {}

\* C28: once main has ended, the exit status of the process is 0 when the
\* pipeline returned Ok, and not 0 when it returned a fatal error.
C28_ErrorExitsNonZero == exit_code # -1 => (exit_code = 0 <=> pc = "Ok")

\* C29: the worklist of the features under examination empties for every
\* feature table a visited release has: no feature is put on it again once it
\* was examined, so features that list themselves or each other end the
\* examination like any other.
C29_WorklistEmpties ==
    \A v \in visits : \A i \in DependencyIndexes(v) :
        IsNormalOrBuild(DependencyAt(v, i)) /\ ParsedOf(v).ok =>
            ~ActivationOf(Release(index, v.crate_version), v.enabled, i, v.is_root).hang

\* the enabled set E is what the normalisation owes to the call: default is
\* in E when the flag is set and the release declares it, out of E when the
\* flag is not set, and every other feature of the incoming list is kept
Normalised(E, call) ==
    /\ (call.has_default_features /\ DEFAULT_FEATURE \in DOMAIN Release(index, call.crate_version).features)
          => DEFAULT_FEATURE \in E
    /\ ~call.has_default_features => DEFAULT_FEATURE \notin E
    /\ E \ {DEFAULT_FEATURE} = Range(call.enabled_features) \ {DEFAULT_FEATURE}

\* C30: every call of process_enabled_dependency that is running visits its
\* release with a normalised set: default enabled when the dependency has
\* default_features set and the release declares default, and not enabled
\* when it is not set, whatever the incoming list of features holds.
C30_DefaultNormalised ==
    \A k \in 1..Len(stack) :
        ~stack[k].is_root =>
            \E v \in visits :
                /\ ~v.is_root
                /\ v.crate_version = stack[k].call.crate_version
                /\ Normalised(v.enabled, stack[k].call)

\* the release list of the package of the dependency holds a release that is
\* not withdrawn and whose version string does not parse
UnparsableCandidate(dependency) ==
    \E j \in 1..Len(index[dependency.crate_name]) :
        /\ ~index[dependency.crate_name][j].yanked
        /\ ~SemverVersionParses(index[dependency.crate_name][j].vers)

\* C37: when the loop reaches an activated dependency whose package the store
\* holds, the run ends with SemVerRequirement if the requirement does not
\* parse, and with SemVerVersion if it parses and some release of the package
\* that is not withdrawn has a version string that does not parse.
C37_UnparsableIsFatal ==
    \A v \in visits : \A i \in DependencyIndexes(v) :
        (/\ ParsedOf(v).ok
         /\ Resolved(v, i)
         /\ DependencyAt(v, i).crate_name \in DOMAIN index
         /\ \A k \in 1..(i - 1) : FaultAt(v, k) = "none") =>
            /\ ~SemverReqParses(DependencyAt(v, i).req) => pc = "SemVerRequirement"
            /\ (SemverReqParses(DependencyAt(v, i).req) /\ UnparsableCandidate(DependencyAt(v, i)))
                  => pc = "SemVerVersion"

\* C38: within a run every entry of required_dependencies stays in it as it
\* is, download flag included, and the set never holds two entries for one
\* (name, version): an insertion for a release the set already holds changes
\* nothing, and the flag kept is that of the first insertion.
C38_FirstInsertionKept ==
    /\ [](\A e1 \in required_dependencies : \A e2 \in required_dependencies : VersionEq(e1, e2) => e1 = e2)
    /\ [][(run' = run) => (required_dependencies \subseteq required_dependencies')]_vars

\* C38 witness: add_dependency has returned a release with a download flag
\* that is not the flag the set holds for it
C38_Witness ==
    \E l \in pulled : \E e \in required_dependencies :
        VersionEq(l.child, e) /\ l.child.download # e.download

\* C39: download_crates has at most one fetch task in flight, the last one
\* spawned, and it is spawned only when every task before it has ended and
\* its outcome is in results: task k fetches crates_vec[k], results[k] is
\* its outcome, and every permit is back in the semaphore when the loop
\* acquires the next one.
C39_OneFetchAtATime ==
    /\ Cardinality(InFlight) <= 1
    /\ InFlight \subseteq {Len(tasks)}
    /\ Len(results) <= Len(tasks)
    /\ Len(tasks) <= Len(results) + 1
    /\ Len(tasks) <= Len(crates_vec)
    /\ \A k \in 1..Len(results) : results[k] = tasks[k] /\ results[k] # "running"
    /\ \A crat \in requested : \E k \in 1..Len(tasks) : crates_vec[k] = crat
    /\ dst_pc = "download_crates" =>
          permits = IF Len(tasks) = Len(results) THEN SemaphorePermits ELSE SemaphorePermits - 1

\* C39 witness: the second fetch is in flight under the only permit taken,
\* after the first has ended and its outcome was pushed
C39_Witness ==
    /\ dst_pc = "download_crates"
    /\ Len(tasks) = 2
    /\ tasks[2] = "running"
    /\ Len(results) = 1
    /\ results[1] = tasks[1]
    /\ permits = SemaphorePermits - 1

\* the errors populate_index returns
IndexErrors == {"CreateIndexDir", "InitGitRepo", "WriteConfigJson", "AddCrateToIndex", "AddFileToGitRepo", "CommitGitRepo"}

\* populate_registry has begun: its directory exists, or a task was spawned
RegistryBegun == <<REGISTRY_DIR>> \in dirs \/ tasks # <<>> \/ requested # {} \/ crates_vec # <<>>

\* C40: once the registry directory exists or a fetch task was spawned, the
\* index is written and committed: config.json and the line of every release
\* are in the files and in the tree of the commit; and when populate_index
\* fails, populate returns its error, the registry directory is never
\* created and no fetch is issued.
C40_IndexBeforeRegistry ==
    /\ RegistryBegun =>
          /\ unindexed = {}
          /\ Len(repo.commits) = 1
          /\ <<INDEX_DIR, <<"config.json">>>> \in DOMAIN files
          /\ \A crat \in crates :
                /\ ClaimedIndexFile(crat) \in PackageFiles
                /\ HasLine(ClaimedIndexFile(crat), crat)
                /\ diff_paths(ClaimedIndexFile(crat), <<INDEX_DIR>>) \in DOMAIN repo.commits[1].tree
          /\ ret \notin IndexErrors
    /\ ret \in IndexErrors => dst_pc = "done" /\ ~RegistryBegun

\* C40 witness: a fetch was issued for a closure of two releases
C40_Witness ==
    /\ Cardinality(crates) = 2
    /\ requested # {}
    /\ Len(repo.commits) = 1
    /\ dst_pc = "download_crates"

\* ------------------------------------------------------------------------
\* Entries, guards and kinds: the walker over stores built round one release
\* R with the required dependency D, the optional dependency O, in some
\* stores a second, optional dependency on D, and dev dependencies on the
\* package Y and on the package X the store does not hold.  The feature f of
\* R lists raw entries of every form; the dependency of P on R carries a
\* target guard.
\* ------------------------------------------------------------------------

\* raw entries of each form, naming O, D, the feature n, and N that names nothing
EntryForms ==
    {<<"n">>, <<"O">>, <<"D">>, <<"N">>,
     <<"dep:", "O">>, <<"dep:", "D">>,
     <<"O", "/", "h">>, <<"D", "/", "h">>, <<"N", "/", "h">>,
     <<"O", "?", "/", "h">>, <<"D", "?", "/", "h">>,
     <<"dep:", "O", "/", "h">>, <<"dep:", "D", "/", "h">>,
     <<"dep:", "O", "?", "/", "h">>, <<"dep:", "D", "?", "/", "h">>,
     <<"O", "/", "h", "/", "h">>}

\* the lists of f: no entry, one entry of any form, or an entry of any form
\* followed by one that names D, O or nothing
EntryLists ==
    {<<>>} \cup {<<a>> : a \in EntryForms}
           \cup {<<a, b>> : a \in EntryForms, b \in {<<"D", "?", "/", "h">>, <<"O", "/", "h">>, <<"N">>}}

Leaf(op, key, val) == [op |-> op, key |-> key, val |-> val, args |-> <<>>]

Combine(op, args) == [op |-> op, key |-> "", val |-> "", args |-> args]

\* the predicates of a cfg expression: target_os, target_feature, a flag,
\* target = "<triple>", another key = value pair, and test
Predicates ==
    {TargetOs("windows"), TargetOs("linux"), Leaf("target_feature", "", "sse2"), Leaf("flag", "", "feature_flag_x"),
     Leaf("keyvalue", "target", TARGET_TRIPLE), Leaf("keyvalue", "target", "x86_64-unknown-linux-gnu"),
     Leaf("keyvalue", "other", "v"), Leaf("test", "", "")}

Expressions ==
    Predicates \cup {Combine("not", <<a>>) : a \in Predicates}
               \cup {Combine("all", <<a, b>>) : a, b \in Predicates}
               \cup {Combine("any", <<a, b>>) : a, b \in Predicates}
               \cup {Combine("not", <<Combine("any", <<a, b>>)>>) : a, b \in Predicates}
               \cup {Combine("all", <<>>), Combine("any", <<>>)}

Guards ==
    {NoTarget, TripleTarget(TARGET_TRIPLE), TripleTarget("x86_64-unknown-linux-gnu")}
        \cup {CfgTarget(e) : e \in Expressions}

EntriesParams ==
    [f : EntryLists, twin : BOOLEAN, declares : BOOLEAN,
     root : {"P", "R"}, enabled : {<<>>, <<"f">>}, guard : Guards]

DevDependencies ==
    <<Dependency("X", Caret(1, 0), "dev", FALSE, TRUE, <<>>, NoTarget),
      Dependency("Y", Caret(1, 0), "dev", FALSE, TRUE, <<>>, NoTarget)>>

DependenciesR(q) ==
    <<Dependency("D", Caret(1, 0), "normal", FALSE, TRUE, <<"g">>, NoTarget),
      Dependency("O", Caret(1, 0), "normal", TRUE, TRUE, <<>>, NoTarget)>>
      \o (IF q.twin THEN <<Dependency("D", Caret(1, 0), "build", TRUE, TRUE, <<>>, NoTarget)>> ELSE <<>>)
      \o DevDependencies

FeaturesR(q) ==
    IF q.declares
    THEN ("f" :> q.f) @@ ("n" :> <<>>) @@ ("O" :> <<(<<"n">>)>>)
    ELSE ("f" :> q.f) @@ ("n" :> <<>>)

MkEntriesIndex(q) ==
    ("P" :> <<CrateVersion("P", <<1, 0>>, FALSE,
                <<Dependency("R", Caret(1, 0), "normal", FALSE, FALSE, q.enabled, q.guard)>> \o DevDependencies,
                NoFeatures)>>) @@
    ("R" :> <<CrateVersion("R", <<1, 0>>, FALSE, DependenciesR(q), FeaturesR(q))>>) @@
    ("D" :> <<CrateVersion("D", <<1, 0>>, FALSE, <<>>, ("g" :> <<>>) @@ ("h" :> <<>>))>>) @@
    ("O" :> <<CrateVersion("O", <<1, 0>>, FALSE, <<>>, ("h" :> <<>>))>>) @@
    ("Y" :> <<CrateVersion("Y", <<1, 0>>, FALSE, <<>>, NoFeatures)>>)

\* P asks nothing of a root R; the guard varies in the stores where f is empty
EntriesInit ==
    /\ \E q \in EntriesParams :
         /\ q.root = "R" => (q.enabled = <<>> /\ q.guard = NoTarget)
         /\ q.guard # NoTarget => (q.f = <<>> /\ ~q.twin /\ ~q.declares /\ q.enabled = <<>>)
         /\ index = MkEntriesIndex(q)
         /\ crate_versions = {TopLevel(q.root, <<1, 0>>)}
    /\ todo = crate_versions
    /\ required_dependencies = {}
    /\ stack = <<>>
    /\ pc = "run"
    /\ result = {}
    /\ run = 1
    /\ first = [roots |-> {}, result |-> {}]
    /\ visits = {}
    /\ pulled = {}
    /\ exit_code = -1
    /\ DstIdle

EntriesNext == AnalyzeRoot \/ ProcessEnabledDependency \/ Return \/ Finish

SpecEntries == EntriesInit /\ [][EntriesNext]_vars

\* the features of the reachable DepStrong entries for the dependency
StrongFeatures(table, enabled, dependency) ==
    {e.feature : e \in {x \in ReachableEntries(table, enabled) :
                            x.tag = "StrongDependencyFeature" /\ x.dep_name = dependency.name}}

\* C31: in every visit, a required normal/build dependency is resolved
\* whatever the enabled set is, and the features enabled in its release are
\* those it lists and those of the reachable DepStrong entries that name it;
\* reachable Dep and DepWeak entries that name it change nothing, and a
\* resolution ends in an error only for a table that does not parse.
C31_RequiredAlwaysActive ==
    /\ pc \in {"run", "Ok"} =>
          \A v \in visits : \A i \in DependencyIndexes(v) :
              (~DependencyAt(v, i).optional /\ IsNormalOrBuild(DependencyAt(v, i))) =>
                  /\ PulledBy(v, i) # {}
                  /\ \A l \in PulledBy(v, i) :
                        l.features = Range(DependencyAt(v, i).features)
                                        \cup StrongFeatures(TableOf(v), v.enabled, DependencyAt(v, i))
    /\ pc \notin {"run", "Ok"} => pc = "FeatureTable" /\ \E v \in visits : ~ParsedOf(v).ok

\* C31 witness: R was visited with a feature that holds a Dep and a DepWeak
\* entry for its required dependency D, and D was resolved with the feature
\* it lists alone
C31_Witness ==
    /\ pc = "Ok"
    /\ \E v \in visits :
          /\ v.crate_version.name = "R"
          /\ ~DependencyAt(v, 1).optional
          /\ DependencyEntry("D") \in ReachableEntries(TableOf(v), v.enabled)
          /\ WeakDependencyFeature("D", "h") \in ReachableEntries(TableOf(v), v.enabled)
          /\ \E l \in PulledBy(v, 1) : l.features = {"g"}

\* the places <<f, k>> of the raw entries of the release of visit v
EntryPlaces(v) ==
    {p \in (DOMAIN Release(index, v.crate_version).features) \X (1..2) :
        p[2] <= Len(Release(index, v.crate_version).features[p[1]])}

RawAt(v, p) == Release(index, v.crate_version).features[p[1]][p[2]]

\* the optional normal/build dependencies of the release: its implicit
\* features before any entry is parsed
ImplicitOf(v) ==
    {DependencyAt(v, i).name : i \in {j \in DependencyIndexes(v) :
                                        DependencyAt(v, j).optional /\ IsNormalOrBuild(DependencyAt(v, j))}}

\* the parse of the raw entry at place p, on its own
ParseAt(v, p) == parse_feature_table_entry(Release(index, v.crate_version), RawAt(v, p), ImplicitOf(v))

OptionalNames(v) == {DependencyAt(v, i).name : i \in {j \in DependencyIndexes(v) : DependencyAt(v, j).optional}}

DependencyNames(v) == {DependencyAt(v, i).name : i \in DependencyIndexes(v)}

Slashes(entry) == Cardinality(SlashPositions(entry))

IsWeakForm(entry) == \E k \in 1..Len(entry) : entry[k] = "?"

\* the name an entry starts with, after its dep: prefix if it has one
NameOf(entry) == IF HasDepPrefix(entry) THEN entry[2] ELSE entry[1]

\* the parsed entry is the one in the table of the visit, when the table parses
InTable(v, p) == ParsedOf(v).ok => ParsedOf(v).table[p[1]][p[2]] = ParseAt(v, p).entry

\* C32: a raw entry without '/' and without dep: parses to Feature(name)
\* when the release declares the feature name, also when an optional
\* dependency has that name; else to Dep(name) when name is an optional
\* dependency; else the parse fails and the resolution ends with a
\* feature-table error.  The entry leaves the implicit features as they are.
C32_BareEntry ==
    \A v \in visits : \A p \in EntryPlaces(v) :
        (Slashes(RawAt(v, p)) = 0 /\ ~HasDepPrefix(RawAt(v, p))) =>
            /\ CASE NameOf(RawAt(v, p)) \in DOMAIN Release(index, v.crate_version).features ->
                        ParseAt(v, p).ok /\ ParseAt(v, p).entry = FeatureEntry(NameOf(RawAt(v, p)))
                 [] NameOf(RawAt(v, p)) \in OptionalNames(v) ->
                        ParseAt(v, p).ok /\ ParseAt(v, p).entry = DependencyEntry(NameOf(RawAt(v, p)))
                 [] OTHER -> ~ParseAt(v, p).ok /\ pc = "FeatureTable"
            /\ ParseAt(v, p).implicit = ImplicitOf(v)
            /\ InTable(v, p)
            /\ (ParsedOf(v).ok /\ \A o \in EntryPlaces(v) : ~HasDepPrefix(RawAt(v, o)))
                  => ParsedOf(v).implicit = ImplicitOf(v)

\* C32 witness: R declares the feature O and has the optional dependency O,
\* and the bare entry O of f is in its table as Feature(O)
C32_Witness ==
    /\ pc = "Ok"
    /\ \E v \in visits :
          /\ v.crate_version.name = "R"
          /\ "O" \in DOMAIN Release(index, v.crate_version).features
          /\ "O" \in OptionalNames(v)
          /\ <<"f", 1>> \in EntryPlaces(v)
          /\ RawAt(v, <<"f", 1>>) = <<"O">>
          /\ ParsedOf(v).ok
          /\ ParsedOf(v).table["f"][1] = FeatureEntry("O")
          /\ "O" \in ParsedOf(v).implicit

\* C33: dep:name/feat is accepted whenever name is a dependency of the
\* release, optional or required, as name/feat is, and parses to
\* DepStrong(name, feat); dep:name?/feat is accepted whenever name is an
\* optional dependency, as name?/feat is, and parses to DepWeak(name, feat);
\* both take name out of the implicit features.
C33_DepPrefixSameCondition ==
    \A v \in visits : \A p \in EntryPlaces(v) :
        (Slashes(RawAt(v, p)) = 1 /\ HasDepPrefix(RawAt(v, p))) =>
            IF IsWeakForm(RawAt(v, p))
            THEN NameOf(RawAt(v, p)) \in OptionalNames(v) =>
                    /\ ParseAt(v, p).ok
                    /\ ParseAt(v, p).entry = WeakDependencyFeature(NameOf(RawAt(v, p)), "h")
                    /\ ParseAt(v, p).implicit = ImplicitOf(v) \ {NameOf(RawAt(v, p))}
            ELSE NameOf(RawAt(v, p)) \in DependencyNames(v) =>
                    /\ ParseAt(v, p).ok
                    /\ ParseAt(v, p).entry = StrongDependencyFeature(NameOf(RawAt(v, p)), "h")
                    /\ ParseAt(v, p).implicit = ImplicitOf(v) \ {NameOf(RawAt(v, p))}

\* C34: name?/feat parses to DepWeak(name, feat) when name is an optional
\* dependency of the release and is rejected otherwise; name/feat parses to
\* DepStrong(name, feat) when name is a dependency and is rejected otherwise;
\* an entry with two '/' or more is rejected; and the rejection of any entry
\* ends the resolution with a feature-table error and no closure.
C34_RejectionIsFatal ==
    \A v \in visits : \A p \in EntryPlaces(v) :
        /\ (Slashes(RawAt(v, p)) = 1 /\ ~HasDepPrefix(RawAt(v, p))) =>
              /\ ParseAt(v, p).ok <=> NameOf(RawAt(v, p)) \in
                                        (IF IsWeakForm(RawAt(v, p)) THEN OptionalNames(v) ELSE DependencyNames(v))
              /\ ParseAt(v, p).ok =>
                    /\ ParseAt(v, p).entry =
                          IF IsWeakForm(RawAt(v, p))
                          THEN WeakDependencyFeature(NameOf(RawAt(v, p)), "h")
                          ELSE StrongDependencyFeature(NameOf(RawAt(v, p)), "h")
                    /\ InTable(v, p)
        /\ Slashes(RawAt(v, p)) >= 2 => ~ParseAt(v, p).ok
        /\ ~ParseAt(v, p).ok => pc = "FeatureTable" /\ result = {} /\ ~ParsedOf(v).ok

\* C34 witness: the entry D?/h of R, whose dependency D is required, ended
\* the resolution
C34_Witness ==
    /\ pc = "FeatureTable"
    /\ \E v \in visits : \E p \in EntryPlaces(v) :
          /\ RawAt(v, p) = <<"D", "?", "/", "h">>
          /\ "D" \in DependencyNames(v) \ OptionalNames(v)
          /\ ~ParseAt(v, p).ok

\* the packages that releases of the store name in dev dependencies only,
\* the roots apart
DevOnly ==
    {n \in UNION {UNION {{index[c][k].dependencies[i].crate_name : i \in 1..Len(index[c][k].dependencies)} :
                            k \in 1..Len(index[c])} : c \in DOMAIN index} :
        /\ \A c \in DOMAIN index : \A k \in 1..Len(index[c]) : \A i \in 1..Len(index[c][k].dependencies) :
              index[c][k].dependencies[i].crate_name = n => index[c][k].dependencies[i].kind = "dev"
        /\ \A r \in crate_versions : r.name # n}

\* C35: no call of add_dependency is made for a dev dependency, in the visit
\* of a root or of any other release; a package named in dev dependencies only
\* is not looked up (a missing one is no error), none of its releases is in
\* the closure, and none is visited or waits to be.
C35_DevIgnored ==
    /\ \A l \in pulled : DependencyOf(l).kind # "dev"
    /\ \A e \in required_dependencies \cup result : e.name \notin DevOnly
    /\ \A v \in visits : v.crate_version.name \notin DevOnly
    /\ \A k \in 1..Len(stack) : \A j \in 1..Len(stack[k].pending) :
          stack[k].pending[j].crate_version.name \notin DevOnly
    /\ pc # "CrateNotFound"

\* C35 witness: the root P and, below it, R were visited; both have dev
\* dependencies on Y, which the store holds, and on X, which it does not;
\* the call returned a closure
C35_Witness ==
    /\ pc = "Ok"
    /\ DevOnly = {"X", "Y"}
    /\ "Y" \in DOMAIN index
    /\ "X" \notin DOMAIN index
    /\ \E v \in visits : v.is_root /\ v.crate_version.name = "P"
                            /\ \E i \in DependencyIndexes(v) : DependencyAt(v, i).kind = "dev"
    /\ \E v \in visits : ~v.is_root /\ v.crate_version.name = "R"
                            /\ \E i \in DependencyIndexes(v) : DependencyAt(v, i).kind = "dev"
    /\ \E e \in result : e.name = "D"

\* every predicate of the expression is a target predicate, a target
\* feature, a flag or a key = value pair
RECURSIVE Listed(_)
Listed(e) ==
    IF e.op \in {"not", "all", "any"}
    THEN \A k \in 1..Len(e.args) : Listed(e.args[k])
    ELSE e.op \in {"target", "target_feature", "flag", "keyvalue"}

\* the value of an expression with all, any and not as the boolean operators
RECURSIVE Standard(_)
Standard(e) ==
    CASE e.op = "not" -> ~Standard(e.args[1])
      [] e.op = "all" -> \A k \in 1..Len(e.args) : Standard(e.args[k])
      [] e.op = "any" -> \E k \in 1..Len(e.args) : Standard(e.args[k])
      [] e.op = "target" -> TargetMatches(e)
      [] e.op = "target_feature" -> TRUE
      [] e.op = "flag" -> FALSE
      [] e.op = "keyvalue" -> e.key = "target" /\ e.val = TARGET_TRIPLE
      [] OTHER -> FALSE

\* the value of a guard
GuardValue(target) ==
    CASE target.kind = "none" -> TRUE
      [] target.kind = "cfg" -> Standard(target.expr)
      [] OTHER -> target.triple = TARGET_TRIPLE

\* C36: a dependency of a root is resolved whatever its guard is worth, and
\* the release it selects is flagged for download exactly when the guard is
\* true: no guard is true, a guard that is no cfg expression is true when it
\* is the triple of the target, and a cfg expression of target predicates,
\* target features (true), flags (false) and key = value pairs (true for
\* target = the triple alone) has its value under the boolean all, any, not.
C36_GuardValue ==
    pc \in {"run", "Ok"} =>
        \A v \in visits : \A i \in DependencyIndexes(v) :
            (/\ v.is_root
             /\ IsNormalOrBuild(DependencyAt(v, i))
             /\ ~DependencyAt(v, i).optional
             /\ DependencyAt(v, i).target.kind = "cfg" => Listed(DependencyAt(v, i).target.expr)) =>
                /\ PulledBy(v, i) # {}
                /\ \A l \in PulledBy(v, i) : l.child.download = GuardValue(DependencyAt(v, i).target)

\* C36 witness: the guard cfg(not(feature_flag_x)) of the dependency of P on
\* R is true, and R is flagged for download
C36_Witness ==
    \E v \in visits :
        /\ v.is_root
        /\ v.crate_version.name = "P"
        /\ DependencyAt(v, 1).target = CfgTarget(Combine("not", <<Leaf("flag", "", "feature_flag_x")>>))
        /\ \E l \in PulledBy(v, 1) : l.child.download

====
